---- MODULE Spec2Model ----
(***************************************************************************)
(* A model of the DoGPDA texture pipeline: the Difference-of-Gaussians     *)
(* bump mapper (DoGBumpMapper.js) with its kernel cache, and the two       *)
(* bump-to-normal mappers (BumpToNormalMapper and BumpToNormalPDA).        *)
(*                                                                         *)
(* Numbers.  JavaScript numbers are modelled by exact rationals held as    *)
(* integer numerators over a known denominator:                            *)
(*   - sigma, heightScale and threshold are held in tenths;                *)
(*   - Math.exp is tabulated to two decimals (ExpScale);                   *)
(*   - NaN (the product of an out-of-range array read, or of 0/0) is kept  *)
(*     as a flag beside the number, and propagates as in IEEE arithmetic;  *)
(*   - a store into a Uint8ClampedArray rounds to the nearest integer,     *)
(*     ties to even, clamps to 0..255 and turns NaN into 0.                *)
(* Float rounding error (Float32Array, double products) is not modelled.   *)
(***************************************************************************)
EXTENDS Integers, Sequences, FiniteSets, TLC

(***************************************************************************)
(* Bounds of the model.                                                    *)
(***************************************************************************)
\* images have 1..MaxDim columns and 1..MaxDim rows
MaxDim == 2
\* dispose() is called at most MaxClears times in one behaviour
MaxClears == 1
\* a BumpToNormalPDA is called while its stack holds fewer than MaxStack items
MaxStack == 2
\* user events of the page (clicks, file choices, checkbox and view changes)
MaxEvents == 2
\* reloads of the page
MaxReloads == 1
\* milliseconds the clock of the StateManager advances
MaxTime == 1
\* callbacks subscribed to the StateManager
MaxListeners == 2

(***************************************************************************)
(* Program constants.                                                      *)
(***************************************************************************)
\* the neutral height written below the threshold
Neutral == 128
\* the opaque alpha written by every stage
Opaque == 255
\* the largest value an 8-bit channel holds
ChannelMax == 255
\* the smallest kernel size the blur uses
MinKernelSize == 3
\* the blur's kernel size is ceil(sigma * SigmaSpan)
SigmaSpan == 6
\* the constructor's lower clamp of sigma, in tenths (0.1)
MinSigma == 1
\* the constructor's defaults, in tenths: sigma1 1.0, sigma2 2.0,
\* heightScale 1.0, threshold 0.1
DefaultSigma1 == 10
DefaultSigma2 == 20
DefaultHeightScale == 10
DefaultThreshold == 1
\* sigma, heightScale and threshold are held in tenths
Tenth == 10
\* Math.exp is tabulated in hundredths
ExpScale == 100
\* 1 / 0.00001, the guard of every division by a sum of weights
InvEpsilon == 100000

VARIABLES
    options,                                \* the options the DoGBumpMapper was built with
    sigma1, sigma2, heightScale, threshold, \* DoGBumpMapper configuration
    bumpMap,                                \* DoGBumpMapper.bumpMap
    kernelCache,                            \* DoGBumpMapper.kernelCache
    genCalls,                               \* runs of _generateGaussianKernel so far
    clears,                                 \* calls of dispose() so far
    obtained,                               \* the kernel each requester got last
    mapper,                                 \* a BumpToNormalMapper instance
    pda,                                    \* a BumpToNormalPDA instance
    lastOp,                                 \* the last call: arguments, result or error
    app,                                    \* the page of index.js: state, material, runs, timers
    manager                                 \* a StateManager instance and its listeners

configVars == <<options, sigma1, sigma2, heightScale, threshold>>

dogVars == <<configVars, bumpMap, kernelCache, genCalls, clears, obtained>>

\* the mappers of the processing core
coreVars == <<dogVars, mapper, pda>>

vars == <<dogVars, mapper, pda, lastOp, app, manager>>

(***************************************************************************)
(* Values.                                                                 *)
(***************************************************************************)
Null == [null |-> TRUE]

Max(a, b) == IF a >= b THEN a ELSE b
Min(a, b) == IF a <= b THEN a ELSE b
Abs(a) == IF a < 0 THEN -a ELSE a
\* Math.ceil(a / b) for b > 0
CeilDiv(a, b) == -((-a) \div b)

RECURSIVE SumUpTo(_, _)
\* f[0] + ... + f[n]
SumUpTo(f, n) == IF n < 0 THEN 0 ELSE f[n] + SumUpTo(f, n - 1)

\* An ImageData: width, height and one <<r, g, b, a>> per pixel, pixel p at
\* byte offset 4 * p of the data array.
ImageData(w, h, px) == [width |-> w, height |-> h, data |-> px]

\* the value a Uint8ClampedArray holds after num/den is stored into it
ToUint8Clamped(num, den) ==
    LET q == num \div den
        r == num % den
        n == IF 2 * r < den THEN q
             ELSE IF 2 * r > den THEN q + 1
             ELSE IF q % 2 = 0 THEN q ELSE q + 1
    IN  Max(0, Min(ChannelMax, n))

\* a possibly-NaN number num/den stored into a Uint8ClampedArray
StoreUint8(v, den) == IF v.nan THEN 0 ELSE ToUint8Clamped(v.num, den)

(***************************************************************************)
(* The Gaussian kernel.                                                    *)
(***************************************************************************)
\* round(ExpScale * Math.exp(-(x*x) / (2*sigma*sigma))), sigma in tenths
ExpTable(sigma, x) ==
    LET s == Abs(sigma)
        a == Abs(x)
        row == CASE s <= 2  -> <<100, 0, 0, 0, 0, 0, 0>>
                 [] s = 5   -> <<100, 14, 0, 0, 0, 0, 0>>
                 [] s = 10  -> <<100, 61, 14, 1, 0, 0, 0>>
                 [] s = 15  -> <<100, 80, 41, 14, 3, 0, 0>>
                 [] s = 20  -> <<100, 88, 61, 32, 14, 4, 1>>
    IN  IF a + 1 > Len(row) THEN 0 ELSE row[a + 1]

\* _generateGaussianKernel: the weights are num[i+1]/den; with sigma = 0 the
\* centre weight is exp(-(0/0)) = NaN, the sum is NaN and every weight is NaN.
\* variant: a kernel whose weights are left undivided by their sum
GenerateGaussianKernelRaw(sigma, size) ==
    LET center == size \div 2
    IN  [nan |-> FALSE, num |-> [i \in 1..size |-> ExpTable(sigma, i - 1 - center)],
         den |-> ExpScale]

GenerateGaussianKernel(sigma, size) ==
    LET center == size \div 2
        raw == [i \in 0..(size - 1) |-> ExpTable(sigma, i - center)]
        sum == SumUpTo(raw, size - 1)
    IN  IF sigma = 0 /\ size > 0
        THEN [nan |-> TRUE, num |-> [i \in 1..size |-> 0], den |-> 1]
        ELSE IF sum * InvEpsilon < ExpScale
        THEN [nan |-> FALSE, num |-> [i \in 1..size |-> 1], den |-> Max(size, 1)]
        ELSE [nan |-> FALSE, num |-> [i \in 1..size |-> raw[i - 1]], den |-> sum]

\* the cache key `${sigma}_${size}`: number formatting is injective
CacheKey(sigma, size) == <<sigma, size>>

\* variant: a cache that never reports a hit
CacheHasNever(cache, key) == FALSE

CacheHas(cache, key) == key \in DOMAIN cache

\* variant: a cache that keeps only the newest kernel
CacheSetEvicting(cache, key, kernel) == [k \in {key} |-> kernel]

CacheSet(cache, key, kernel) ==
    [k \in DOMAIN cache \cup {key} |-> IF k = key THEN kernel ELSE cache[k]]

\* variant: a request that generates its own kernel even when one is cached,
\* as two overlapping check-then-insert sequences would
GetGaussianKernelFresh(cache, calls, sigma, size) ==
    LET key == CacheKey(sigma, size)
        kernel == [id |-> calls + 1,
                   weights |-> GenerateGaussianKernel(sigma, size)]
    IN  [cache |-> IF key \in DOMAIN cache THEN cache
                   ELSE [k \in DOMAIN cache \cup {key} |->
                            IF k = key THEN kernel ELSE cache[k]],
         calls |-> calls + 1, kernel |-> kernel]

\* _getGaussianKernel: the cache, the generator calls and the kernel returned.
\* A kernel object is an instance (id) and its weights.
GetGaussianKernel(cache, calls, sigma, size) ==
    LET key == CacheKey(sigma, size) IN
    IF CacheHas(cache, key)
    THEN [cache |-> cache, calls |-> calls, kernel |-> cache[key]]
    ELSE LET kernel == [id |-> calls + 1,
                        weights |-> GenerateGaussianKernel(sigma, size)]
         IN  [cache |-> CacheSet(cache, key, kernel), calls |-> calls + 1,
              kernel |-> kernel]

(***************************************************************************)
(* The separable blur.                                                     *)
(***************************************************************************)
\* the kernel size of a blur at sigma (tenths): max(3, ceil(6 sigma)), made odd
KernelSizeOdd(sigma) ==
    LET kernelSize == Max(MinKernelSize, CeilDiv(sigma * SigmaSpan, Tenth))
    IN  IF kernelSize % 2 = 0 THEN kernelSize + 1 ELSE kernelSize

HalfSize(sigma) == KernelSizeOdd(sigma) \div 2

\* the mirror boundary rule of both passes
MirrorIndex(src, dim) ==
    LET a == IF src < 0 THEN -src ELSE src
    IN  IF a >= dim THEN 2 * dim - a - 2 ELSE a

\* Horizontal pass: tempBuffer as, per pixel, a possibly-NaN numerator per
\* colour channel over the denominator SumUpTo(kernel weights), and the alpha.
\* A read at a negative offset yields undefined, hence NaN; a negative srcX in
\* a row y > 0 reads the previous row.
HorizontalPass(img, w, halfSize) ==
    LET n == img.width * img.height
        wsum == SumUpTo([i \in 0..(2 * halfSize) |-> w.num[i + 1]], 2 * halfSize)
        scaled == (~w.nan) /\ wsum * InvEpsilon > w.den
        src(p, i) == (p \div img.width) * img.width
                     + MirrorIndex((p % img.width) + i - halfSize, img.width)
        bad(p) == w.nan \/ \E i \in 0..(2 * halfSize) : src(p, i) \notin 0..(n - 1)
        acc(p, c) == SumUpTo([i \in 0..(2 * halfSize) |->
                                  img.data[src(p, i)][c] * w.num[i + 1]],
                             2 * halfSize)
        chan(p, c) == IF bad(p) THEN [nan |-> TRUE, num |-> 0]
                      ELSE IF scaled THEN [nan |-> FALSE, num |-> acc(p, c)]
                      ELSE [nan |-> FALSE, num |-> 0]
    IN  [p \in 0..(n - 1) |-> <<chan(p, 1), chan(p, 2), chan(p, 3), img.data[p][4]>>]

\* Vertical pass over tempBuffer, each channel clamped and stored as a byte.
VerticalPass(img, temp, w, halfSize) ==
    LET n == img.width * img.height
        wsum == SumUpTo([i \in 0..(2 * halfSize) |-> w.num[i + 1]], 2 * halfSize)
        scaled == (~w.nan) /\ wsum * InvEpsilon > w.den
        src(p, j) == MirrorIndex((p \div img.width) + j - halfSize, img.height)
                     * img.width + (p % img.width)
        bad(p, c) == w.nan \/ \E j \in 0..(2 * halfSize) :
                        \/ src(p, j) \notin 0..(n - 1)
                        \/ temp[src(p, j)][c].nan
        acc(p, c) == SumUpTo([j \in 0..(2 * halfSize) |->
                                  temp[src(p, j)][c].num * w.num[j + 1]],
                             2 * halfSize)
        chan(p, c) == IF bad(p, c) THEN 0
                      ELSE IF scaled THEN ToUint8Clamped(acc(p, c), wsum * wsum)
                      ELSE 0
    IN  [p \in 0..(n - 1) |-> <<chan(p, 1), chan(p, 2), chan(p, 3), img.data[p][4]>>]

\* _applyGaussianBlur with the kernel the cache returned
ApplyGaussianBlur(img, sigma, kernel) ==
    LET halfSize == HalfSize(sigma)
        temp == HorizontalPass(img, kernel.weights, halfSize)
    IN  ImageData(img.width, img.height,
                  VerticalPass(img, temp, kernel.weights, halfSize))

\* variant: a blur that writes its result into the source buffer
BlurSourceInPlace(img, sigma, kernel) == ApplyGaussianBlur(img, sigma, kernel)

\* what the source buffer of _applyGaussianBlur holds after the call: the
\* passes write only to `temp` and to `result` (a clone), never to imageData
BlurSource(img, sigma, kernel) == img

\* _differenceOfGaussians: per-channel absolute difference, alpha forced opaque
DifferenceOfGaussians(image1, image2) ==
    ImageData(image1.width, image1.height,
              [p \in DOMAIN image1.data |->
                  <<Abs(image1.data[p][1] - image2.data[p][1]),
                    Abs(image1.data[p][2] - image2.data[p][2]),
                    Abs(image1.data[p][3] - image2.data[p][3]),
                    Opaque>>])

\* variant: a threshold test that is not strict
AboveOrAtThreshold(sum3, thr) == Tenth * Abs(sum3) >= 3 * thr

\* Math.abs(dogValue) > this.threshold, dogValue = sum3 / 3, threshold in tenths
AboveThreshold(sum3, thr) == Tenth * Abs(sum3) > 3 * thr

\* variant: the height is lowered from the neutral value instead of raised
BumpValueLowered(sum3, thr, scale) ==
    IF AboveThreshold(sum3, thr)
    THEN ToUint8Clamped(Min(ChannelMax * 3 * Tenth,
                            Max(0, Neutral * 3 * Tenth - sum3 * scale)),
                        3 * Tenth)
    ELSE Neutral

\* the byte written for one pixel: dogValue = sum3 / 3, scale in tenths, so
\* 128 + dogValue * heightScale = (128 * 30 + sum3 * scale) / 30
BumpValue(sum3, thr, scale) ==
    IF AboveThreshold(sum3, thr)
    THEN ToUint8Clamped(Min(ChannelMax * 3 * Tenth,
                            Max(0, Neutral * 3 * Tenth + sum3 * scale)),
                        3 * Tenth)
    ELSE Neutral

\* _generateBumpValues
GenerateBumpValues(dogImage, thr, scale) ==
    ImageData(dogImage.width, dogImage.height,
              [p \in DOMAIN dogImage.data |->
                  LET v == BumpValue(dogImage.data[p][1] + dogImage.data[p][2]
                                     + dogImage.data[p][3], thr, scale)
                  IN  <<v, v, v, Opaque>>])

\* variant: the second blur taken at the default sigma1 instead of sigma2
BlurPairSkewed(img, s1, s2, cache, calls) ==
    LET s == DefaultSigma1
        g1 == GetGaussianKernel(cache, calls, s1, KernelSizeOdd(s1))
        g2 == GetGaussianKernel(g1.cache, g1.calls, s, KernelSizeOdd(s))
    IN  [blurredImage1 |-> ApplyGaussianBlur(img, s1, g1.kernel),
         blurredImage2 |-> ApplyGaussianBlur(img, s, g2.kernel),
         cache |-> g2.cache, calls |-> g2.calls]

\* the two blurs of generateBumpMap: both read the cloned original
\* (originalImageData, line 47), which the second blur finds as the first left it
BlurPair(img, s1, s2, cache, calls) ==
    LET g1 == GetGaussianKernel(cache, calls, s1, KernelSizeOdd(s1))
        g2 == GetGaussianKernel(g1.cache, g1.calls, s2, KernelSizeOdd(s2))
        original == BlurSource(img, s1, g1.kernel)
    IN  [blurredImage1 |-> ApplyGaussianBlur(img, s1, g1.kernel),
         blurredImage2 |-> ApplyGaussianBlur(original, s2, g2.kernel),
         cache |-> g2.cache, calls |-> g2.calls]

\* !imageData || !imageData.width || !imageData.height
InvalidImage(imageData) ==
    imageData = Null \/ imageData.width = 0 \/ imageData.height = 0

(***************************************************************************)
(* Construction of a DoGBumpMapper.  An option is the empty set when it is *)
(* not given and {v} when it is given as v; `x || d` yields d for both an  *)
(* absent and a zero option.                                               *)
(***************************************************************************)
OptOr(o, d) == IF o = {} \/ o = {0} THEN d ELSE CHOOSE v \in o : TRUE

\* variant: a constructor that stores sigma options without the lower clamp
ConstructorUnclamped(o) ==
    [sigma1 |-> OptOr(o.sigma1, DefaultSigma1),
     sigma2 |-> OptOr(o.sigma2, DefaultSigma2),
     heightScale |-> OptOr(o.heightScale, DefaultHeightScale),
     threshold |-> OptOr(o.threshold, DefaultThreshold)]

Constructor(o) ==
    [sigma1 |-> Max(MinSigma, OptOr(o.sigma1, DefaultSigma1)),
     sigma2 |-> Max(MinSigma, OptOr(o.sigma2, DefaultSigma2)),
     heightScale |-> OptOr(o.heightScale, DefaultHeightScale),
     threshold |-> OptOr(o.threshold, DefaultThreshold)]

NoOptions == [sigma1 |-> {}, sigma2 |-> {}, heightScale |-> {}, threshold |-> {}]

Requesters == {1, 2}

\* the state after `new DoGBumpMapper(options)`
Constructed(o) ==
    LET c == Constructor(o) IN
    /\ options = o
    /\ sigma1 = c.sigma1
    /\ sigma2 = c.sigma2
    /\ heightScale = c.heightScale
    /\ threshold = c.threshold
    /\ bumpMap = Null
    /\ kernelCache = <<>>
    /\ genCalls = 0
    /\ clears = 0
    /\ obtained = [r \in Requesters |-> Null]

(***************************************************************************)
(* The bump-to-normal mappers.  strength is held in hundredths.  A number  *)
(* of the gradient field is num/den; a vector of the vector field is       *)
(* (x, y, z) / (den * sqrt(root)): den carries the gradient's denominator  *)
(* before normalisation, root the squared length after it.                 *)
(***************************************************************************)
\* the bounds of _validateStrength, in hundredths: 0.01 and 10.0
MinStrength == 1
MaxStrength == 1000
\* the default strength 1.0, in hundredths
DefaultStrength == 100
Hundredth == 100

RECURSIVE GCD(_, _)
GCD(a, b) == IF b = 0 THEN Abs(a) ELSE GCD(Abs(b), Abs(a) % Abs(b))

RECURSIVE FracLeq(_, _, _, _)
\* a/b <= c/d for a, c >= 0 and b, d > 0, by continued fractions (no products)
FracLeq(a, b, c, d) ==
    LET q1 == a \div b
        q2 == c \div d
        r1 == a % b
        r2 == c % d
    IN  IF q1 # q2 THEN q1 < q2
        ELSE IF r1 = 0 THEN TRUE
        ELSE IF r2 = 0 THEN FALSE
        ELSE FracLeq(d, r2, b, r1)

\* m * sqrt(root) <= q for m, q >= 0 and root > 0
RootLeq(m, root, q) ==
    IF m = 0 THEN TRUE ELSE IF q = 0 THEN FALSE
    ELSE FracLeq(m * root, q, q, m)

RECURSIVE FloorSearch(_, _, _, _)
\* the largest m in lo..hi with m * sqrt(root) <= q (lo satisfies it)
FloorSearch(lo, hi, root, q) ==
    IF lo = hi THEN lo
    ELSE LET mid == (lo + hi + 1) \div 2
         IN  IF RootLeq(mid, root, q) THEN FloorSearch(mid, hi, root, q)
             ELSE FloorSearch(lo, mid - 1, root, q)

\* m * sqrt(root) = q
RootEq(m, root, q) ==
    IF m = 0 \/ q = 0 THEN m = 0 /\ q = 0
    ELSE FracLeq(m * root, q, q, m) /\ FracLeq(q, m, m * root, q)

\* Math.floor(ChannelMax * v / (den * sqrt(root))), saturated to -256..255
FloorScaled(v, den, root) ==
    LET f == FloorSearch(0, ChannelMax, den * den * root, ChannelMax * Abs(v))
    IN  IF v >= 0 THEN f
        ELSE IF RootEq(f, den * den * root, ChannelMax * Abs(v)) THEN -f
        ELSE -(f + 1)

\* variant: the component rounded to the nearest byte instead of floored
EncodeComponentRounded(v, den, root) ==
    Max(0, Min(ChannelMax, (ChannelMax + 1 + FloorScaled(v, den, root)) \div 2))

\* Math.floor((c * 0.5 + 0.5) * 255) for the component c = v/(den*sqrt(root)),
\* as the byte a Uint8ClampedArray then holds
EncodeComponent(v, den, root) ==
    Max(0, Min(ChannelMax, (ChannelMax + FloorScaled(v, den, root)) \div 2))

\* _validateStrength; an option is {} when absent and {v} when given
ValidateStrength(o) ==
    LET strength == IF o = {} THEN DefaultStrength ELSE CHOOSE v \in o : TRUE
    IN  Max(MinStrength, Min(MaxStrength, strength))

\* the red channel of the pixel at (x, y)
Red(bump, x, y) == bump.data[y * bump.width + x][1]

\* variant: central differences in which a missing neighbour counts as 0
CentralGradientsZeroPad(bump, strength) ==
    [p \in 0..(bump.width * bump.height - 1) |->
        LET x == p % bump.width
            y == p \div bump.width
            left == IF x > 0 THEN Red(bump, x - 1, y) ELSE 0
            right == IF x < bump.width - 1 THEN Red(bump, x + 1, y) ELSE 0
            top == IF y > 0 THEN Red(bump, x, y - 1) ELSE 0
            bottom == IF y < bump.height - 1 THEN Red(bump, x, y + 1) ELSE 0
        IN  [dx |-> (right - left) * strength,
             dy |-> (bottom - top) * strength,
             den |-> ChannelMax * 2 * Hundredth]]

\* _computeCentralGradients: a missing neighbour is the centre value itself
CentralGradients(bump, strength) ==
    [p \in 0..(bump.width * bump.height - 1) |->
        LET x == p % bump.width
            y == p \div bump.width
            h == Red(bump, x, y)
            left == IF x > 0 THEN Red(bump, x - 1, y) ELSE h
            right == IF x < bump.width - 1 THEN Red(bump, x + 1, y) ELSE h
            top == IF y > 0 THEN Red(bump, x, y - 1) ELSE h
            bottom == IF y < bump.height - 1 THEN Red(bump, x, y + 1) ELSE h
        IN  [dx |-> (right - left) * strength,
             dy |-> (bottom - top) * strength,
             den |-> ChannelMax * 2 * Hundredth]]

\* variant: a neighbourhood in which an outside sample is the centre value
SampleCentreFallback(bump, x, y, dx, dy) ==
    IF x + dx < 0 \/ x + dx > bump.width - 1 \/ y + dy < 0 \/ y + dy > bump.height - 1
    THEN Red(bump, x, y)
    ELSE Red(bump, x + dx, y + dy)

\* _getSampleNeighborhood: sample (dx, dy) with coordinates clamped
Sample(bump, x, y, dx, dy) ==
    Red(bump, Max(0, Min(bump.width - 1, x + dx)),
              Max(0, Min(bump.height - 1, y + dy)))

\* _computeSobelGradients (side = 2) and _computePrewittGradients (side = 1):
\* the stencil weights are 1, side, 1 and the divisor is 2 * (side + 2)
StencilGradients(bump, strength, side) ==
    [p \in 0..(bump.width * bump.height - 1) |->
        LET x == p % bump.width
            y == p \div bump.width
            s(dx, dy) == Sample(bump, x, y, dx, dy)
            gx == (s(1, -1) - s(-1, -1)) + side * (s(1, 0) - s(-1, 0))
                  + (s(1, 1) - s(-1, 1))
            gy == (s(-1, 1) - s(-1, -1)) + side * (s(0, 1) - s(0, -1))
                  + (s(1, 1) - s(1, -1))
        IN  [dx |-> gx * strength, dy |-> gy * strength,
             den |-> ChannelMax * Hundredth * 2 * (side + 2)]]

\* variant: a switch whose default branch is the sobel method
ComputeComplexGradientsSobelDefault(bump, gradientType, strength) ==
    [width |-> bump.width, height |-> bump.height,
     data |-> CASE gradientType = "central" -> CentralGradients(bump, strength)
                [] gradientType = "prewitt" -> StencilGradients(bump, strength, 1)
                [] OTHER -> StencilGradients(bump, strength, 2)]

\* the switch of _computeComplexGradients: any other string falls to central
ComputeComplexGradients(bump, gradientType, strength) ==
    [width |-> bump.width, height |-> bump.height,
     data |-> CASE gradientType = "sobel" -> StencilGradients(bump, strength, 2)
                [] gradientType = "prewitt" -> StencilGradients(bump, strength, 1)
                [] OTHER -> CentralGradients(bump, strength)]

\* variant: a vector field whose z component is left 0
MapToVectorFieldNoZ(gradients) ==
    [width |-> gradients.width, height |-> gradients.height,
     data |-> [p \in DOMAIN gradients.data |->
                  LET g == gradients.data[p]
                  IN  [x |-> g.dx, y |-> g.dy, z |-> 0,
                       den |-> g.den, root |-> 1]]]

\* _mapToVectorField of BumpToNormalMapper: (dx, dy, 1.0), not yet normalised
MapToVectorField(gradients) ==
    [width |-> gradients.width, height |-> gradients.height,
     data |-> [p \in DOMAIN gradients.data |->
                  LET g == gradients.data[p]
                  IN  [x |-> g.dx, y |-> g.dy, z |-> g.den,
                       den |-> g.den, root |-> 1]]]

\* variant: a vector left undivided
NormalizeSkipped(v) ==
    LET g == GCD(GCD(v.x, v.y), v.z)
    IN  IF g = 0 THEN [x |-> 0, y |-> 0, z |-> 0, den |-> 1, root |-> 1]
        ELSE [x |-> v.x \div g, y |-> v.y \div g, z |-> v.z \div g,
              den |-> v.den \div g, root |-> 1]

\* one vector divided by its length; a zero length is replaced by `fallback`
\* and leaves the zero vector
Normalize(v) ==
    LET g == GCD(GCD(v.x, v.y), v.z)
    IN  IF g = 0 THEN [x |-> 0, y |-> 0, z |-> 0, den |-> 1, root |-> 1]
        ELSE [x |-> v.x \div g, y |-> v.y \div g, z |-> v.z \div g, den |-> 1,
              root |-> (v.x \div g) * (v.x \div g) + (v.y \div g) * (v.y \div g)
                       + (v.z \div g) * (v.z \div g)]

\* _normalizeVectors
NormalizeVectors(vectors) ==
    [vectors EXCEPT !.data = [p \in DOMAIN vectors.data |-> Normalize(vectors.data[p])]]

\* variant: a normal map allocated height x width
EncodeAsRGBTransposed(vectors) ==
    ImageData(vectors.height, vectors.width,
              [p \in DOMAIN vectors.data |->
                  LET v == vectors.data[p]
                  IN  <<EncodeComponent(v.x, v.den, v.root),
                        EncodeComponent(v.y, v.den, v.root),
                        EncodeComponent(v.z, v.den, v.root), Opaque>>])

\* _encodeAsRGB
EncodeAsRGB(vectors) ==
    ImageData(vectors.width, vectors.height,
              [p \in DOMAIN vectors.data |->
                  LET v == vectors.data[p]
                  IN  <<EncodeComponent(v.x, v.den, v.root),
                        EncodeComponent(v.y, v.den, v.root),
                        EncodeComponent(v.z, v.den, v.root), Opaque>>])

\* variant: a validation that tests the buffer only for null
InvalidBumpNullOnly(bumpMapData) == bumpMapData = Null

\* !bumpMapData || !bumpMapData.data || !bumpMapData.width || !bumpMapData.height
InvalidBump(bumpMapData) ==
    bumpMapData = Null \/ bumpMapData.width = 0 \/ bumpMapData.height = 0

\* new BumpToNormalMapper(options)
NewMapper(o) ==
    [strength |-> ValidateStrength(o.strength),
     gradientType |-> IF o.gradientType = {} THEN "central"
                      ELSE CHOOSE t \in o.gradientType : TRUE,
     currentState |-> "init",
     visited |-> <<>>,
     processingData |-> [bump |-> Null, gradients |-> Null, vectors |-> Null,
                         normalMap |-> Null]]

\* variant: every state leads straight to ACCEPT, as the default branch does
TransitionToAccept(m) ==
    [m EXCEPT !.currentState = "accept", !.visited = Append(@, "accept")]

\* _transition of BumpToNormalMapper: the state is advanced, then the stage runs
Transition(m) ==
    LET d == m.processingData IN
    CASE m.currentState = "scan" ->
            [m EXCEPT !.currentState = "complex_grad",
                      !.visited = Append(@, "complex_grad"),
                      !.processingData.gradients =
                          ComputeComplexGradients(d.bump, m.gradientType, m.strength)]
      [] m.currentState = "complex_grad" ->
            [m EXCEPT !.currentState = "vector_map",
                      !.visited = Append(@, "vector_map"),
                      !.processingData.vectors = MapToVectorField(d.gradients)]
      [] m.currentState = "vector_map" ->
            [m EXCEPT !.currentState = "normalize",
                      !.visited = Append(@, "normalize"),
                      !.processingData.vectors = NormalizeVectors(d.vectors)]
      [] m.currentState = "normalize" ->
            [m EXCEPT !.currentState = "encode",
                      !.visited = Append(@, "encode"),
                      !.processingData.normalMap = EncodeAsRGB(d.vectors)]
      [] m.currentState = "encode" ->
            [m EXCEPT !.currentState = "accept", !.visited = Append(@, "accept")]
      [] OTHER ->
            [m EXCEPT !.currentState = "accept", !.visited = Append(@, "accept")]

RECURSIVE DrivePipeline(_)
\* while (this.currentState !== this.pipeline.ACCEPT) this._transition()
DrivePipeline(m) ==
    IF m.currentState = "accept" THEN m ELSE DrivePipeline(Transition(m))

\* new BumpToNormalPDA(options): strength = options.strength || 1.0, unclamped
NewPDA(o) ==
    [strength |-> OptOr(o.strength, DefaultStrength),
     currentState |-> "init",
     visited |-> <<>>,
     stack |-> <<>>,
     normalMap |-> Null]

\* this.stack.pop() leaves the stack without its top
Pop(stack) == SubSeq(stack, 1, Len(stack) - 1)
Top(stack) == stack[Len(stack)]

\* _transition of BumpToNormalPDA.  _computeComplexGradients reads stack[0]
\* (the bottom of the stack); _mapToVectorField already divides by the length.
TransitionPDA(m) ==
    CASE m.currentState = "scan" ->
            [m EXCEPT !.currentState = "complex_grad",
                      !.visited = Append(@, "complex_grad"),
                      !.stack = Append(@, [type |-> "gradients",
                          data |-> ComputeComplexGradients(m.stack[1].data,
                                                           "central", m.strength)])]
      [] m.currentState = "complex_grad" ->
            [m EXCEPT !.currentState = "vector_map",
                      !.visited = Append(@, "vector_map"),
                      !.stack = Append(Pop(@), [type |-> "vectors",
                          data |-> NormalizeVectors(
                                       MapToVectorField(Top(m.stack).data))])]
      [] m.currentState = "vector_map" ->
            [m EXCEPT !.currentState = "normalize",
                      !.visited = Append(@, "normalize"),
                      !.stack = Append(Pop(@), [type |-> "normalized",
                          data |-> NormalizeVectors(Top(m.stack).data)])]
      [] m.currentState = "normalize" ->
            [m EXCEPT !.currentState = "encode",
                      !.visited = Append(@, "encode"),
                      !.stack = Pop(@),
                      !.normalMap = EncodeAsRGB(Top(m.stack).data)]
      [] m.currentState = "encode" ->
            [m EXCEPT !.currentState = "accept", !.visited = Append(@, "accept")]

RECURSIVE RunPDA(_, _)
\* the PDA after n transitions
RunPDA(m, n) == IF n = 0 THEN m ELSE RunPDA(TransitionPDA(m), n - 1)

RECURSIVE DrivePDA(_)
DrivePDA(m) ==
    IF m.currentState = "accept" THEN m ELSE DrivePDA(TransitionPDA(m))

(***************************************************************************)
(* Inputs.                                                                 *)
(***************************************************************************)
Dims == 1..MaxDim

Palette == {<<200, 200, 200, 255>>, <<255, 255, 255, 255>>, <<10, 130, 250, 128>>}

Uniform(w, h, c) == ImageData(w, h, [p \in 0..(w * h - 1) |-> c])

\* a horizontal ramp 0, 64, 128, 192, 255 (grey, opaque)
RampLevel(x) == <<0, 64, 128, 192, 255>>[(x % 5) + 1]
Ramp(w, h) == ImageData(w, h, [p \in 0..(w * h - 1) |->
                  LET v == RampLevel(p % w) IN <<v, v, v, Opaque>>])

\* a checkerboard of two colours whose channels differ
Checker(w, h) == ImageData(w, h, [p \in 0..(w * h - 1) |->
                  IF ((p % w) + (p \div w)) % 2 = 0
                  THEN <<255, 40, 0, 255>> ELSE <<3, 90, 201, 77>>])

UniformImages == {Uniform(w, h, c) : w \in Dims, h \in Dims, c \in Palette}
Images == UniformImages \cup {Ramp(w, h) : w \in Dims, h \in Dims}
                        \cup {Checker(w, h) : w \in Dims, h \in Dims}

\* buffers a stage entry point must reject
InvalidImages == {Null, ImageData(0, 1, <<>>), ImageData(1, 0, <<>>)}

\* sigma values, in tenths, of direct blur requests
BlurSigmas == {1, 5, 10}

\* height buffers: flat, a horizontal ramp, a vertical ramp (grey, opaque)
Flat(w, h, v) == ImageData(w, h, [p \in 0..(w * h - 1) |-> <<v, v, v, Opaque>>])
RampDown(w, h) == ImageData(w, h, [p \in 0..(w * h - 1) |->
                      LET v == RampLevel(p \div w) IN <<v, v, v, Opaque>>])
\* a buffer of alternating columns 0 and 255
Step(w, h) == ImageData(w, h, [p \in 0..(w * h - 1) |->
                  LET v == IF (p % w) % 2 = 0 THEN 0 ELSE ChannelMax
                  IN  <<v, v, v, Opaque>>])

BumpBuffers == {Flat(1, 1, 128), Flat(2, 2, 77), Ramp(MaxDim, MaxDim),
                RampDown(MaxDim, MaxDim)}

NoNormalOptions == [strength |-> {}, gradientType |-> {}]

\* new ThreeJsBumpToNormalMapper(options) of part_001: strength is first
\* `options.strength || 1.0`, gradientType `options.gradientType || 'central'`
NewThreeJsMapper(o) ==
    NewMapper([strength |-> {OptOr(o.strength, DefaultStrength)},
               gradientType |-> IF o.gradientType = {} THEN {"central"}
                                ELSE o.gradientType])

\* the state after `new BumpToNormalMapper(options)` and
\* `new BumpToNormalPDA(options)`
NormalConstructed(o) ==
    /\ mapper = NewMapper(o)
    /\ pda = NewPDA(o)

(***************************************************************************)
(* Operations of one DoGBumpMapper instance.                               *)
(***************************************************************************)
\* a blur request: _applyGaussianBlur(imageData, sigma)
BlurRequest(img, sigma) ==
    LET size == KernelSizeOdd(sigma)
        g == GetGaussianKernel(kernelCache, genCalls, sigma, size)
    IN  /\ kernelCache' = g.cache
        /\ genCalls' = g.calls
        /\ lastOp' = [op |-> "blur", input |-> img, sigma |-> sigma,
                      size |-> size, halfSize |-> HalfSize(sigma),
                      kernel |-> g.kernel,
                      output |-> ApplyGaussianBlur(img, sigma, g.kernel),
                      source |-> BlurSource(img, sigma, g.kernel),
                      error |-> "none"]
        /\ UNCHANGED <<configVars, bumpMap, clears, obtained, mapper, pda, app, manager>>

\* a kernel request by requester r: _getGaussianKernel(sigma, size); a negative
\* size makes `new Array(size)` throw a RangeError
GetKernelRequest(r, sigma, size) ==
    IF size < 0 /\ ~CacheHas(kernelCache, CacheKey(sigma, size))
    THEN /\ lastOp' = [op |-> "getKernel", requester |-> r, sigma |-> sigma,
                       size |-> size, kernel |-> Null, error |-> "RangeError"]
         /\ UNCHANGED <<dogVars, mapper, pda, app, manager>>
    ELSE LET g == GetGaussianKernel(kernelCache, genCalls, sigma, size)
         IN  /\ kernelCache' = g.cache
             /\ genCalls' = g.calls
             /\ obtained' = [obtained EXCEPT ![r] =
                                [key |-> CacheKey(sigma, size), kernel |-> g.kernel]]
             /\ lastOp' = [op |-> "getKernel", requester |-> r, sigma |-> sigma,
                           size |-> size, kernel |-> g.kernel, error |-> "none"]
             /\ UNCHANGED <<configVars, bumpMap, clears, mapper, pda, app, manager>>

\* generateBumpMap(imageData)
GenerateBumpMap(imageData) ==
    IF InvalidImage(imageData)
    THEN /\ lastOp' = [op |-> "generateBumpMap", input |-> imageData,
                       output |-> Null,
                       error |-> "Invalid image data provided to DoGBumpMapper"]
         /\ UNCHANGED <<dogVars, mapper, pda, app, manager>>
    ELSE LET b == BlurPair(imageData, sigma1, sigma2, kernelCache, genCalls)
             dogResult == DifferenceOfGaussians(b.blurredImage1, b.blurredImage2)
             result == GenerateBumpValues(dogResult, threshold, heightScale)
         IN  /\ bumpMap' = result
             /\ kernelCache' = b.cache
             /\ genCalls' = b.calls
             /\ lastOp' = [op |-> "generateBumpMap", input |-> imageData,
                           blurred1 |-> b.blurredImage1,
                           blurred2 |-> b.blurredImage2,
                           dog |-> dogResult, output |-> result,
                           source |-> imageData, error |-> "none"]
             /\ UNCHANGED <<configVars, clears, obtained, mapper, pda, app, manager>>

\* ThreeJsDoGBumpMapper.dispose(): the kernel cache is cleared
Dispose ==
    /\ kernelCache' = <<>>
    /\ clears' = clears + 1
    /\ lastOp' = [op |-> "dispose", error |-> "none"]
    /\ UNCHANGED <<configVars, bumpMap, genCalls, obtained, mapper, pda, app, manager>>

\* BumpToNormalMapper.generateNormalMap(bumpMapData)
GenerateNormalMap(bumpMapData) ==
    IF InvalidBump(bumpMapData)
    THEN /\ lastOp' = [op |-> "generateNormalMap", input |-> bumpMapData,
                       output |-> Null,
                       error |-> "[BumpToNormal] Invalid bump map data provided"]
         /\ UNCHANGED <<dogVars, mapper, pda, app, manager>>
    ELSE LET m == DrivePipeline(
                      [mapper EXCEPT !.processingData.bump = bumpMapData,
                                     !.currentState = "scan",
                                     !.visited = <<"scan">>])
         IN  /\ mapper' = m
             /\ lastOp' = [op |-> "generateNormalMap", input |-> bumpMapData,
                           output |-> m.processingData.normalMap,
                           source |-> bumpMapData, error |-> "none"]
             /\ UNCHANGED <<dogVars, pda, app, manager>>

\* BumpToNormalPDA.generateNormalMap(bumpMapData): no validation; cloning a
\* null buffer throws before anything is pushed
GenerateNormalMapPDA(bumpMapData) ==
    IF bumpMapData = Null
    THEN /\ lastOp' = [op |-> "pda.generateNormalMap", input |-> bumpMapData,
                       output |-> Null, error |-> "TypeError"]
         /\ UNCHANGED <<dogVars, mapper, pda, app, manager>>
    ELSE LET m0 == [pda EXCEPT !.stack = Append(@, [type |-> "bump",
                                                    data |-> bumpMapData]),
                               !.currentState = "scan",
                               !.visited = <<"scan">>]
             m == DrivePDA(m0)
         IN  /\ pda' = m
             /\ lastOp' = [op |-> "pda.generateNormalMap", input |-> bumpMapData,
                           gradients |-> Top(RunPDA(m0, 1).stack).data,
                           vectors |-> Top(RunPDA(m0, 3).stack).data,
                           output |-> m.normalMap, error |-> "none"]
             /\ UNCHANGED <<dogVars, mapper, app, manager>>

\* construction of the normal mappers from one options object: the core
\* BumpToNormalMapper directly or through its Three.js wrapper, and the PDA
ConstructNormal(o, wrapped) ==
    /\ mapper' = IF wrapped THEN NewThreeJsMapper(o) ELSE NewMapper(o)
    /\ pda' = NewPDA(o)
    /\ lastOp' = [op |-> "newMapper", options |-> o, wrapped |-> wrapped,
                  error |-> "none"]
    /\ UNCHANGED <<dogVars, app, manager>>

(***************************************************************************)
(* The page of index.js: the state held by its StateManager, the material  *)
(* of the plane, the applyMaps runs in flight, the timers and the saved    *)
(* copy of the state in localStorage.  JavaScript runs each handler to its *)
(* next await of an image load, so each step below is one such stretch.    *)
(***************************************************************************)
ViewModes == {"material", "bump", "normal", "albedo", "emission"}

\* a THREE.Texture made by run `run`; a normal texture is drawn from a bump texture
Texture(kind, run, from) == [kind |-> kind, run |-> run, from |-> from]

\* the state of `new StateManager({resources: {imageUrl: nebula.jpg}})`
DefaultState ==
    [flags |-> [useNormalMap |-> TRUE, useAlbedoMap |-> TRUE,
                useEmissionMap |-> TRUE, processingInProgress |-> FALSE,
                pendingUpdate |-> FALSE],
     resources |-> [imageUrl |-> "nebula"],
     textures |-> [bumpTexture |-> Null, normalTexture |-> Null,
                   albedoTexture |-> Null, emissionTexture |-> Null],
     visualization |-> {}]

\* saveToLocalStorage: the state without its textures
Serialize(st) ==
    [flags |-> st.flags, resources |-> st.resources,
     visualization |-> st.visualization]

\* loadFromLocalStorage: updateState with what was saved, if anything was
LoadFromLocalStorage(st, store) ==
    IF store = Null THEN st
    ELSE [st EXCEPT !.flags = store.flags, !.resources = store.resources,
                    !.visualization = store.visualization]

\* the page after init(): state loaded, material new, the first applyMaps
\* due in 100 ms
NewApp(store) ==
    [state |-> LoadFromLocalStorage(DefaultState, store),
     material |-> [bumpMap |-> Null, normalMap |-> Null, map |-> Null,
                   emissiveMap |-> Null],
     disposed |-> {},
     runs |-> <<>>,
     timers |-> [initial |-> TRUE, debounce |-> FALSE, rerun |-> 0],
     storage |-> store,
     errors |-> {},
     events |-> 0,
     reloads |-> 0,
     unserved |-> FALSE]

\* texture.dispose()
DisposeTexture(a, t) == IF t = Null THEN a ELSE [a EXCEPT !.disposed = @ \cup {t}]

\* stateManager.updateState(...) on the page: a change notifies the
\* subscription of init(), which saves the state
UpdateState(a, st) ==
    [a EXCEPT !.state = st,
              !.storage = IF st # a.state THEN Serialize(st) ELSE @]

\* some applyMaps run has not reached its finally block
Running(a) == \E r \in 1..Len(a.runs) : a.runs[r].pc # "done"

\* setVisualizationMode(mode)
SetVisualizationMode(a, mode) ==
    LET f == a.state.flags
        t == a.state.textures
        m == a.material
    IN  [a EXCEPT !.material =
            CASE mode = "material" ->
                    [m EXCEPT !.normalMap = IF f.useNormalMap THEN t.normalTexture ELSE Null,
                              !.map = IF f.useAlbedoMap THEN t.albedoTexture ELSE Null,
                              !.emissiveMap = IF f.useEmissionMap THEN t.emissionTexture ELSE Null]
              [] mode = "bump" /\ t.bumpTexture # Null ->
                    [m EXCEPT !.normalMap = Null, !.map = t.bumpTexture,
                              !.emissiveMap = Null]
              [] mode = "normal" /\ t.normalTexture # Null ->
                    [m EXCEPT !.normalMap = Null, !.map = t.normalTexture,
                              !.emissiveMap = Null]
              [] mode = "albedo" /\ t.albedoTexture # Null ->
                    [m EXCEPT !.normalMap = Null, !.map = t.albedoTexture,
                              !.emissiveMap = Null]
              [] mode = "emission" /\ t.emissionTexture # Null ->
                    [m EXCEPT !.normalMap = Null, !.map = Null,
                              !.emissiveMap = t.emissionTexture]
              [] OTHER -> m]

\* variant: applyMaps never finds a run in progress
BusyNever(st) == FALSE

\* the guard of applyMaps: state.flags.processingInProgress
Busy(st) == st.flags.processingInProgress

\* variant: the finally block never finds a pending request
PendingNever(st) == FALSE

\* the test of the finally block: updatedState.flags.pendingUpdate
PendingAtEnd(st) == st.flags.pendingUpdate

\* the finally block of applyMaps for run r
Finally(a, r) ==
    LET pending == PendingAtEnd(a.state)
        a1 == UpdateState(a, [a.state EXCEPT !.flags.processingInProgress = FALSE])
        a2 == IF pending
              THEN [UpdateState(a1, [a1.state EXCEPT !.flags.pendingUpdate = FALSE])
                       EXCEPT !.timers.rerun = @ + 1]
              ELSE a1
    IN  [a2 EXCEPT !.runs[r].pc = "done"]

\* an apply*Map call of run r failed: the error is shown, rethrown, logged
\* by applyMaps, and the finally block runs
Failed(a, r, kind) ==
    Finally([a EXCEPT !.errors = @ \cup {<<r, kind>>}, !.runs[r].error = kind], r)

\* the end of the try block: `state.visualization.activeMap` on the copy of
\* the state taken when the run began, then setVisualizationMode
Reapply(a, r) ==
    IF a.runs[r].hasVisualization
    THEN LET mode == CHOOSE v \in a.state.visualization : TRUE
         IN  [SetVisualizationMode(a, mode) EXCEPT !.runs[r].viz = mode]
    ELSE [a EXCEPT !.runs[r].error = "TypeError"]

\* the emission branch of applyMaps up to its await, or past it when the
\* emission map is off
EmissionStage(a, r) ==
    IF a.state.flags.useEmissionMap
    THEN LET cur == a.state.textures.emissionTexture
             a1 == DisposeTexture(a, cur)
             a2 == DisposeTexture(a1, a1.material.emissiveMap)
         IN  [a2 EXCEPT !.runs[r].pc = "emission", !.runs[r].prev = cur]
    ELSE LET a1 == DisposeTexture(a, a.material.emissiveMap)
         IN  Finally(Reapply([a1 EXCEPT !.material.emissiveMap = Null], r), r)

\* the albedo branch of applyMaps up to its await, or past it when the
\* albedo map is off
AlbedoStage(a, r) ==
    IF a.state.flags.useAlbedoMap
    THEN LET cur == a.state.textures.albedoTexture
         IN  [DisposeTexture(a, cur) EXCEPT !.runs[r].pc = "albedo",
                                            !.runs[r].prev = cur]
    ELSE LET a1 == DisposeTexture(a, a.material.map)
         IN  EmissionStage([a1 EXCEPT !.material.map = Null], r)

\* variant: the normal map is drawn from the texture the state held before
BumpArgumentRecorded(produced, recorded) == recorded

\* `const bumpTexture = await applyBumpMap(); applyNormalMap(bumpTexture)`
BumpArgument(produced, recorded) == produced

\* the normal branch of applyMaps; the normal map is computed without waiting
NormalStage(a, r, bumpTexture) ==
    IF a.state.flags.useNormalMap
    THEN LET a1 == DisposeTexture(a, a.state.textures.normalTexture)
             n == Texture("normal", r, bumpTexture)
         IN  UpdateState([a1 EXCEPT !.material.normalMap = n],
                         [a1.state EXCEPT !.textures.normalTexture = n])
    ELSE [a EXCEPT !.material.normalMap = Null]

\* the image of the bump map of run r loaded and the texture was made
BumpSucceeded(a, r) ==
    LET t == Texture("bump", r, Null)
        recorded == a.state.textures.bumpTexture
        a1 == DisposeTexture(a, a.material.bumpMap)
        a2 == UpdateState([a1 EXCEPT !.material.bumpMap = t],
                          [a1.state EXCEPT !.textures.bumpTexture = t])
        a3 == [a2 EXCEPT !.runs[r].bump = t]
    IN  AlbedoStage(NormalStage(a3, r, BumpArgument(t, recorded)), r)

\* the image of the albedo map of run r loaded and the texture was made
AlbedoSucceeded(a, r) ==
    LET t == Texture("albedo", r, Null)
        a1 == DisposeTexture(a, a.material.map)
        a2 == UpdateState([a1 EXCEPT !.material.map = t],
                          [a1.state EXCEPT !.textures.albedoTexture = t])
    IN  EmissionStage(a2, r)

\* the image of the emission map of run r loaded and the texture was made
EmissionSucceeded(a, r) ==
    LET t == Texture("emission", r, Null)
        a1 == UpdateState([a EXCEPT !.material.emissiveMap = t],
                          [a.state EXCEPT !.textures.emissionTexture = t])
    IN  Finally(Reapply(a1, r), r)

\* applyMaps(): a request while processing is only noted; otherwise a run
\* begins, and applyBumpMap disposes the recorded texture and awaits the image
ApplyMaps(a) ==
    IF Busy(a.state)
    THEN [UpdateState(a, [a.state EXCEPT !.flags.pendingUpdate = TRUE])
             EXCEPT !.unserved = @ \/ Running(a)]
    ELSE LET a1 == UpdateState(a, [a.state EXCEPT !.flags.processingInProgress = TRUE])
             cur == a1.state.textures.bumpTexture
         IN  [DisposeTexture(a1, cur) EXCEPT
                 !.runs = Append(@, [pc |-> "bump",
                                     hasVisualization |-> a.state.visualization # {},
                                     prev |-> cur, bump |-> Null,
                                     viz |-> "none", error |-> "none"]),
                 !.unserved = FALSE]

(***************************************************************************)
(* Events of the page.                                                     *)
(***************************************************************************)
\* a handler ends by calling applyMaps()
CallApplyMaps(via, a) ==
    /\ app' = ApplyMaps(a)
    /\ lastOp' = [op |-> "applyMaps", via |-> via, busy |-> Busy(a.state),
                  running |-> Running(a), error |-> "none"]
    /\ UNCHANGED <<coreVars, manager>>

\* a click on the apply button, or Ctrl+Enter
ApplyChanges ==
    /\ app.events < MaxEvents
    /\ CallApplyMaps("click", [app EXCEPT !.events = @ + 1])

\* handleFileSelect: the chosen file becomes the image, then applyMaps()
HandleFileSelect ==
    /\ app.events < MaxEvents
    /\ CallApplyMaps("file",
           UpdateState([app EXCEPT !.events = @ + 1],
                       [app.state EXCEPT !.resources.imageUrl = "blob"]))

\* the change event of a slider: debouncedApplyMaps() restarts its timer
SliderChange ==
    /\ app.events < MaxEvents
    /\ app' = [app EXCEPT !.events = @ + 1, !.timers.debounce = TRUE]
    /\ lastOp' = [op |-> "sliderChange", error |-> "none"]
    /\ UNCHANGED <<coreVars, manager>>

\* a map checkbox changes: the flag is stored and the toggle callback runs
ToggleMap(kind, enabled) ==
    /\ app.events < MaxEvents
    /\ LET a0 == [app EXCEPT !.events = @ + 1]
           t == a0.state.textures
       IN  app' =
             CASE kind = "normal" ->
                    [UpdateState(a0, [a0.state EXCEPT !.flags.useNormalMap = enabled])
                        EXCEPT !.material.normalMap =
                                   IF enabled THEN t.normalTexture ELSE Null]
               [] kind = "albedo" ->
                    [UpdateState(a0, [a0.state EXCEPT !.flags.useAlbedoMap = enabled])
                        EXCEPT !.material.map =
                                   IF enabled THEN t.albedoTexture ELSE Null]
               [] kind = "emission" ->
                    [UpdateState(a0, [a0.state EXCEPT !.flags.useEmissionMap = enabled])
                        EXCEPT !.material.emissiveMap =
                                   IF enabled THEN t.emissionTexture ELSE Null]
    /\ lastOp' = [op |-> "toggle", kind |-> kind, enabled |-> enabled,
                  error |-> "none"]
    /\ UNCHANGED <<coreVars, manager>>

\* a map view radio button is chosen
SelectView(mode) ==
    /\ app.events < MaxEvents
    /\ app' = SetVisualizationMode(
                  UpdateState([app EXCEPT !.events = @ + 1],
                              [app.state EXCEPT !.visualization = {mode}]),
                  mode)
    /\ lastOp' = [op |-> "selectView", mode |-> mode, error |-> "none"]
    /\ UNCHANGED <<coreVars, manager>>

\* a timer fires and calls applyMaps(): the 100 ms timer of init(), the
\* 300 ms debounce timer, or a 50 ms timer set by the finally block
TimerFires(which) ==
    /\ CASE which = "initial" -> app.timers.initial
         [] which = "debounce" -> app.timers.debounce
         [] which = "rerun" -> app.timers.rerun > 0
    /\ CallApplyMaps(which,
           CASE which = "initial" -> [app EXCEPT !.timers.initial = FALSE]
             [] which = "debounce" -> [app EXCEPT !.timers.debounce = FALSE]
             [] which = "rerun" -> [app EXCEPT !.timers.rerun = @ - 1])

\* the image awaited by run r loads (ok) or fails to load or to be processed
Loaded(r, ok) ==
    /\ r \in 1..Len(app.runs)
    /\ app.runs[r].pc \in {"bump", "albedo", "emission"}
    /\ LET kind == app.runs[r].pc
           after == CASE ~ok -> Failed(app, r, kind)
                      [] ok /\ kind = "bump" -> BumpSucceeded(app, r)
                      [] ok /\ kind = "albedo" -> AlbedoSucceeded(app, r)
                      [] ok /\ kind = "emission" -> EmissionSucceeded(app, r)
       IN  /\ app' = after
           /\ lastOp' = [op |-> "loaded", kind |-> kind, run |-> r, ok |-> ok,
                         ended |-> after.runs[r].pc = "done",
                         pending |-> app.state.flags.pendingUpdate,
                         prev |-> app.runs[r].prev,
                         error |-> after.runs[r].error]
    /\ UNCHANGED <<coreVars, manager>>

\* the page is reloaded: everything but localStorage is lost and init() runs
Reload ==
    /\ app.reloads < MaxReloads
    /\ app' = [NewApp(app.storage) EXCEPT !.events = app.events,
                                          !.reloads = app.reloads + 1]
    /\ lastOp' = [op |-> "reload", error |-> "none"]
    /\ UNCHANGED <<coreVars, manager>>

(***************************************************************************)
(* One StateManager instance: its state, its listeners and the clock that  *)
(* subscribe reads.  A JavaScript value is a record: its type, whether it  *)
(* is NaN, its number, and for an object its fields.                       *)
(***************************************************************************)
Sections == {"bumpOptions", "version", "visualization"}

Keys == {"sigma1", "heightScale", "activeMap"}

Prim(type, nan, value) == [type |-> type, nan |-> nan, value |-> value]

Undefined == Prim("undefined", FALSE, 0)

Num(n) == Prim("number", FALSE, n)

NaN == Prim("number", TRUE, 0)

NoFields == [k \in Keys |-> Undefined]

\* a primitive as the value of a section
Direct(p) == [type |-> p.type, nan |-> p.nan, value |-> p.value, fields |-> NoFields]

\* an object with the given fields
Obj(fields) == [type |-> "object", nan |-> FALSE, value |-> 0, fields |-> fields]

\* a === b for primitives: NaN equals nothing
StrictEquals(a, b) ==
    /\ a.type = b.type
    /\ ~a.nan /\ ~b.nan
    /\ a.value = b.value

\* !v
Falsy(v) ==
    \/ v.type = "undefined"
    \/ v.type = "number" /\ (v.nan \/ v.value = 0)

\* a state or an update: each section is undefined (absent) or has a value
NoSections == [s \in Sections |-> Direct(Undefined)]

\* `new StateManager()`, of which two options of one section are kept
NewStateManager ==
    [state |-> [NoSections EXCEPT !["bumpOptions"] =
                   Obj([NoFields EXCEPT !["sigma1"] = Num(10),
                                        !["heightScale"] = Num(10)])],
     listeners |-> {},
     sectionListeners |-> {},
     now |-> 0,
     callbacks |-> 0,
     issued |-> {}]

\* the keys of an object that are present
OwnKeys(v) == {k \in Keys : v.fields[k].type # "undefined"}

\* the body of the forEach of updateState for one section of the update:
\* the state after it, the changes it pushed, and whether it threw
UpdateSection(st, section, new) ==
    LET cur == IF Falsy(st[section]) THEN Obj(NoFields) ELSE st[section]
        created == [st EXCEPT ![section] = cur]
    IN  IF new.type = "object"
        THEN IF cur.type = "object"
             THEN LET differing == {k \in OwnKeys(new) :
                                       ~StrictEquals(cur.fields[k], new.fields[k])}
                  IN  [state |-> [created EXCEPT ![section] =
                                     Obj([k \in Keys |-> IF k \in differing
                                                         THEN new.fields[k]
                                                         ELSE cur.fields[k]])],
                       changes |-> {<<section, k>> : k \in differing},
                       error |-> "none"]
             ELSE [state |-> created, changes |-> {},
                   error |-> IF OwnKeys(new) = {} THEN "none" ELSE "TypeError"]
        ELSE IF cur.type = "object" \/ ~StrictEquals(cur, new)
             THEN [state |-> [created EXCEPT ![section] = new],
                   changes |-> {<<section, "">>}, error |-> "none"]
             ELSE [state |-> created, changes |-> {}, error |-> "none"]

\* the order in which Object.keys lists the sections of an update
SectionOrder == <<"bumpOptions", "version", "visualization">>

RECURSIVE UpdateSections(_, _, _, _)
\* the forEach of updateState from the i-th section on
UpdateSections(st, changes, newState, i) ==
    IF i > Len(SectionOrder) THEN [state |-> st, changes |-> changes, error |-> "none"]
    ELSE LET section == SectionOrder[i]
         IN  IF newState[section].type = "undefined"
             THEN UpdateSections(st, changes, newState, i + 1)
             ELSE LET u == UpdateSection(st, section, newState[section])
                  IN  IF u.error # "none"
                      THEN [state |-> u.state, changes |-> changes \cup u.changes,
                            error |-> u.error]
                      ELSE UpdateSections(u.state, changes \cup u.changes,
                                          newState, i + 1)

\* notifyListeners(changes): the callbacks invoked
NotifyListeners(m, changes) ==
    {l[2] : l \in m.listeners}
        \cup {l[3] : l \in {s \in m.sectionListeners :
                               \E c \in changes : c[1] = s[1]}}

\* subscribe(callback): the id is `global_${Date.now()}`
SubscribeId(scope, now) == <<scope, now>>

\* unsubscribe(id): the global listener under the id goes, or else the
\* section listener under it; the listeners left and the value returned
UnsubscribeResult(m, id) ==
    IF \E l \in m.listeners : l[1] = id
    THEN [listeners |-> {l \in m.listeners : l[1] # id},
          sectionListeners |-> m.sectionListeners, returned |-> TRUE]
    ELSE [listeners |-> m.listeners,
          sectionListeners |-> {s \in m.sectionListeners : s[2] # id},
          returned |-> \E s \in m.sectionListeners : s[2] = id]

\* stateManager.subscribe(callback) with a new callback
Subscribe ==
    /\ manager.callbacks < MaxListeners
    /\ LET id == SubscribeId("global", manager.now)
           cb == manager.callbacks + 1
       IN  /\ manager' = [manager EXCEPT
                  !.listeners = {l \in @ : l[1] # id} \cup {<<id, cb>>},
                  !.callbacks = cb,
                  !.issued = @ \cup {<<id, cb>>}]
           /\ lastOp' = [op |-> "subscribe", id |-> id, callback |-> cb,
                         replaced |-> {l[2] : l \in {x \in manager.listeners :
                                                        x[1] = id}},
                         error |-> "none"]
    /\ UNCHANGED <<coreVars, app>>

\* stateManager.subscribeToSection(section, callback) with a new callback
SubscribeToSection(section) ==
    /\ manager.callbacks < MaxListeners
    /\ LET id == SubscribeId(section, manager.now)
           cb == manager.callbacks + 1
       IN  /\ manager' = [manager EXCEPT
                  !.sectionListeners =
                      {s \in @ : ~(s[1] = section /\ s[2] = id)}
                          \cup {<<section, id, cb>>},
                  !.callbacks = cb,
                  !.issued = @ \cup {<<id, cb>>}]
           /\ lastOp' = [op |-> "subscribeToSection", id |-> id, callback |-> cb,
                         replaced |-> {s[3] : s \in {x \in manager.sectionListeners :
                                                        x[1] = section /\ x[2] = id}},
                         error |-> "none"]
    /\ UNCHANGED <<coreVars, app>>

\* stateManager.unsubscribe(id) with the id that was returned for callback cb
Unsubscribe(id, cb) ==
    /\ <<id, cb>> \in manager.issued
    /\ LET u == UnsubscribeResult(manager, id)
           before == {l[2] : l \in manager.listeners}
                        \cup {s[3] : s \in manager.sectionListeners}
           after == {l[2] : l \in u.listeners} \cup {s[3] : s \in u.sectionListeners}
       IN  /\ manager' = [manager EXCEPT !.listeners = u.listeners,
                                         !.sectionListeners = u.sectionListeners,
                                         !.issued = @ \ {<<id, cb>>}]
           /\ lastOp' = [op |-> "unsubscribe", id |-> id, callback |-> cb,
                         removed |-> before \ after, returned |-> u.returned,
                         error |-> "none"]
    /\ UNCHANGED <<coreVars, app>>

\* stateManager.updateState(newState, silent)
UpdateStateCall(newState, silent) ==
    /\ LET u == UpdateSections(manager.state, {}, newState, 1)
           notifies == ~silent /\ u.changes # {} /\ u.error = "none"
       IN  /\ manager' = [manager EXCEPT !.state = u.state]
           /\ lastOp' = [op |-> "updateState", newState |-> newState,
                         silent |-> silent, before |-> manager.state,
                         returned |-> u.error = "none" /\ u.changes # {},
                         notifies |-> notifies,
                         notified |-> IF notifies
                                      THEN NotifyListeners(manager, u.changes)
                                      ELSE {},
                         error |-> u.error]
    /\ UNCHANGED <<coreVars, app>>

\* a millisecond passes
Tick ==
    /\ manager.now < MaxTime
    /\ manager' = [manager EXCEPT !.now = @ + 1]
    /\ lastOp' = [op |-> "tick", error |-> "none"]
    /\ UNCHANGED <<coreVars, app>>

(***************************************************************************)
(* SpecBlur: blur requests on a default-constructed mapper.                *)
(***************************************************************************)
InitBlur ==
    /\ Constructed(NoOptions)
    /\ NormalConstructed(NoNormalOptions)
    /\ lastOp = [op |-> "new", error |-> "none"]
    /\ app = NewApp(Null)
    /\ manager = NewStateManager

NextBlur == \E img \in Images, sigma \in BlurSigmas : BlurRequest(img, sigma)

SpecBlur == InitBlur /\ [][NextBlur]_vars

\* C1: blurring a uniform-colour image of any size at any sigma returns an
\* image whose every pixel has the input's colour and alpha.
C1_UniformBlurInvariant ==
    (lastOp.op = "blur" /\ lastOp.input \in UniformImages)
        => lastOp.output = lastOp.input

\* C2: in both passes every mirrored source coordinate lies in [0, dim), for
\* every pixel and every kernel offset in [-half, half].
C2_MirrorInRange ==
    lastOp.op = "blur" =>
        \A i \in (-lastOp.halfSize)..lastOp.halfSize :
            /\ \A x \in 0..(lastOp.input.width - 1) :
                  MirrorIndex(x + i, lastOp.input.width)
                      \in 0..(lastOp.input.width - 1)
            /\ \A y \in 0..(lastOp.input.height - 1) :
                  MirrorIndex(y + i, lastOp.input.height)
                      \in 0..(lastOp.input.height - 1)


(***************************************************************************)
(* SpecDoG: generateBumpMap on mappers built with various options.         *)
(***************************************************************************)
Opt(s1, s2, hs, t) == [sigma1 |-> s1, sigma2 |-> s2, heightScale |-> hs, threshold |-> t]

DoGOptions ==
    {NoOptions,
     Opt({1}, {5}, {}, {}),
     Opt({1}, {5}, {}, {140}),
     Opt({1}, {5}, {300}, {}),
     Opt({1}, {5}, {-100}, {0}),
     Opt({5}, {1}, {5}, {70}),
     Opt({5}, {5}, {}, {}),
     Opt({5}, {5}, {30}, {0}),
     Opt({0}, {10}, {}, {}),
     Opt({-10}, {1}, {}, {20}),
     Opt({20}, {}, {-10}, {}),
     Opt({1}, {5}, {20}, {140}),
     Opt({5}, {10}, {}, {}),
     Opt({10}, {5}, {15}, {10}),
     Opt({1}, {10}, {-30}, {}),
     Opt({5}, {5}, {}, {500}),
     Opt({10}, {10}, {}, {}),
     Opt({1}, {1}, {40}, {0}),
     Opt({5}, {1}, {}, {0})}

White == <<255, 255, 255, 255>>

DoGImages == {Uniform(1, 1, White), Ramp(2, 2), Checker(2, 2), Ramp(MaxDim, 1),
              Checker(1, MaxDim), Uniform(MaxDim, MaxDim, White)}

InitDoG ==
    /\ \E o \in DoGOptions : Constructed(o)
    /\ NormalConstructed(NoNormalOptions)
    /\ lastOp = [op |-> "new", error |-> "none"]
    /\ app = NewApp(Null)
    /\ manager = NewStateManager

NextDoG == \E img \in DoGImages : GenerateBumpMap(img)

SpecDoG == InitDoG /\ [][NextDoG]_vars

NeutralPixel == <<128, 128, 128, 255>>

\* C3: when sigma1 equals sigma2, generateBumpMap returns a height map whose
\* every pixel is (128,128,128,255), for every image, threshold >= 0 and scale.
C3_EqualSigmasNeutral ==
    (lastOp.op = "generateBumpMap" /\ lastOp.error = "none"
        /\ sigma1 = sigma2 /\ threshold >= 0)
        => /\ lastOp.output.width = lastOp.input.width
           /\ lastOp.output.height = lastOp.input.height
           /\ \A p \in 0..(lastOp.input.width * lastOp.input.height - 1) :
                 lastOp.output.data[p] = NeutralPixel

\* a non-uniform image went through two equal, in-range blurs
C3_Witness ==
    /\ lastOp.op = "generateBumpMap" /\ lastOp.error = "none"
    /\ sigma1 = sigma2 /\ sigma1 = 5
    /\ lastOp.input = Checker(2, 2)
    /\ lastOp.output.data[0] = NeutralPixel

\* the height the claim gives for a pixel whose three channel differences sum
\* to sum3 (dogValue = sum3 / 3), threshold and heightScale in tenths
C4_Height(sum3) ==
    LET mag == IF sum3 < 0 THEN -sum3 ELSE sum3
        num == 128 * 30 + sum3 * heightScale
        clamped == IF num < 0 THEN 0 ELSE IF num > 255 * 30 THEN 255 * 30 ELSE num
    IN  IF 10 * mag > 3 * threshold THEN ToUint8Clamped(clamped, 30) ELSE 128

\* C4: every pixel's height is clamp(128 + dogValue*heightScale, 0, 255) (as
\* the byte the buffer holds) when |dogValue| > threshold and 128 when
\* |dogValue| <= threshold; R = G = B and alpha is 255.
C4_ThresholdPolicy ==
    (lastOp.op = "generateBumpMap" /\ lastOp.error = "none") =>
        \A p \in 0..(lastOp.input.width * lastOp.input.height - 1) :
            LET d == lastOp.dog.data[p]
                v == C4_Height(d[1] + d[2] + d[3])
            IN  lastOp.output.data[p] = <<v, v, v, 255>>

\* a pixel whose |dogValue| equals the threshold exactly stays neutral, and
\* one above it does not
C4_Witness ==
    /\ lastOp.op = "generateBumpMap" /\ lastOp.error = "none"
    /\ threshold = 140 /\ lastOp.input \in {Ramp(2, 2), Checker(2, 2)}
    /\ \E p \in DOMAIN lastOp.dog.data :
          LET d == lastOp.dog.data[p] IN
          /\ d[1] + d[2] + d[3] > 0
          /\ 10 * (d[1] + d[2] + d[3]) = 3 * threshold
          /\ lastOp.output.data[p] = NeutralPixel

(***************************************************************************)
(* Spec: the kernel cache of one mapper instance over its lifetime: kernel *)
(* requests by two requesters, blurs, generateBumpMap calls and dispose(). *)
(* SpecRequests is the same without dispose().  JavaScript runs each call  *)
(* to completion, so each request is one step.                             *)
(***************************************************************************)
Init ==
    /\ Constructed(NoOptions)
    /\ NormalConstructed(NoNormalOptions)
    /\ lastOp = [op |-> "new", error |-> "none"]
    /\ app = NewApp(Null)
    /\ manager = NewStateManager

KernelRequests == {<<10, 7>>, <<20, 13>>, <<5, 3>>}

CacheImages == {Uniform(1, 1, White), Checker(2, 2)}

NextRequests ==
    \/ \E r \in Requesters, k \in KernelRequests : GetKernelRequest(r, k[1], k[2])
    \/ \E img \in CacheImages : BlurRequest(img, 5)
    \/ \E img \in CacheImages : GenerateBumpMap(img)

Next ==
    \/ \E k \in KernelRequests : GetKernelRequest(1, k[1], k[2])
    \/ BlurRequest(Checker(2, 2), 5)
    \/ GenerateBumpMap(Checker(2, 2))
    \/ clears < MaxClears /\ Dispose

SpecRequests == Init /\ [][NextRequests]_vars

Spec == Init /\ [][Next]_vars

\* C5: with no cache clear, two requests with the same (sigma, size) return
\* identical weights and the generator has run exactly once per distinct key.
C5_CachedKernelReused ==
    /\ genCalls = Cardinality(DOMAIN kernelCache)
    /\ \A r1 \in Requesters, r2 \in Requesters :
          (obtained[r1] # Null /\ obtained[r2] # Null
              /\ obtained[r1].key = obtained[r2].key)
              => obtained[r1].kernel.weights = obtained[r2].kernel.weights
    /\ \A r \in Requesters :
          obtained[r] # Null =>
              /\ obtained[r].key \in DOMAIN kernelCache
              /\ obtained[r].kernel.weights = kernelCache[obtained[r].key].weights

\* both requesters asked for the key (2.0, 13), after other keys were generated
C5_Witness ==
    /\ obtained[1] # Null /\ obtained[2] # Null
    /\ obtained[1].key = <<20, 13>> /\ obtained[2].key = <<20, 13>>
    /\ genCalls = 3

\* C6: a cached kernel stays in the cache, unchanged, across blur and
\* generateBumpMap calls; only dispose() removes entries, and the next request
\* for a removed key regenerates and re-inserts it.
C6_CacheLifetime ==
    [][ /\ (clears' = clears) =>
              \A k \in DOMAIN kernelCache :
                  k \in DOMAIN kernelCache' /\ kernelCache'[k] = kernelCache[k]
        /\ (clears' # clears) => kernelCache' = <<>>
        /\ (lastOp'.op = "getKernel" /\ lastOp'.error = "none"
              /\ <<lastOp'.sigma, lastOp'.size>> \notin DOMAIN kernelCache)
              => /\ <<lastOp'.sigma, lastOp'.size>> \in DOMAIN kernelCache'
                 /\ genCalls' = genCalls + 1
                 /\ lastOp'.kernel.id = genCalls + 1 ]_vars

\* after a dispose(), kernels were regenerated and survived a later
\* generateBumpMap call
C6_Witness ==
    /\ clears = 1
    /\ lastOp.op = "generateBumpMap" /\ lastOp.error = "none"
    /\ DOMAIN kernelCache = KernelRequests
    /\ genCalls = 6

\* C7: interleaved first-time requests for one key insert one instance, and
\* every requester holds that instance.
C7_SingleInstance ==
    /\ \A r \in Requesters :
          obtained[r] # Null =>
              /\ obtained[r].key \in DOMAIN kernelCache
              /\ kernelCache[obtained[r].key].id = obtained[r].kernel.id
    /\ \A r1 \in Requesters, r2 \in Requesters :
          (obtained[r1] # Null /\ obtained[r2] # Null
              /\ obtained[r1].key = obtained[r2].key)
              => obtained[r1].kernel.id = obtained[r2].kernel.id
    /\ \A k1 \in DOMAIN kernelCache, k2 \in DOMAIN kernelCache :
          kernelCache[k1].id = kernelCache[k2].id => k1 = k2

\* both requesters hold the kernel of one key, requested first by requester 2
C7_Witness ==
    /\ obtained[1] # Null /\ obtained[2] # Null
    /\ obtained[1].key = obtained[2].key
    /\ lastOp.op = "getKernel" /\ lastOp.requester = 1
    /\ lastOp.kernel.id = obtained[2].kernel.id

(***************************************************************************)
(* SpecEntry: the stage entry points, given valid and invalid buffers.     *)
(***************************************************************************)
EntryOptions == {NoOptions, Opt({1}, {5}, {}, {}), Opt({5}, {5}, {20}, {})}

InitEntry ==
    /\ \E o \in EntryOptions : Constructed(o)
    /\ NormalConstructed(NoNormalOptions)
    /\ lastOp = [op |-> "new", error |-> "none"]
    /\ app = NewApp(Null)
    /\ manager = NewStateManager

NextEntry ==
    \/ \E b \in CacheImages \cup InvalidImages : GenerateBumpMap(b)
    \/ \E b \in BumpBuffers \cup InvalidImages \cup {bumpMap} : GenerateNormalMap(b)

SpecEntry == InitEntry /\ [][NextEntry]_vars

C9_IsInvalid(b) == IF b = Null THEN TRUE ELSE b.width = 0 \/ b.height = 0

\* C9: generateBumpMap and generateNormalMap given a null or zero-dimension
\* buffer fail with an error, return nothing, and leave bumpMap, the normal
\* mapper's data and pipeline state and the kernel cache as they were.
C9_InvalidInputFailsFast ==
    /\ [](lastOp.op \in {"generateBumpMap", "generateNormalMap"} =>
            (C9_IsInvalid(lastOp.input) <=> lastOp.error # "none"))
    /\ [][ (lastOp'.op \in {"generateBumpMap", "generateNormalMap"}
               /\ C9_IsInvalid(lastOp'.input))
           => /\ lastOp'.output = Null
              /\ bumpMap' = bumpMap
              /\ kernelCache' = kernelCache
              /\ genCalls' = genCalls
              /\ mapper' = mapper ]_vars

\* an invalid buffer was refused after both mappers had produced a result
C9_Witness ==
    /\ lastOp.op = "generateNormalMap" /\ lastOp.error # "none"
    /\ lastOp.input # Null /\ lastOp.input.width = 0
    /\ bumpMap # Null
    /\ kernelCache # <<>>
    /\ mapper.processingData.normalMap # Null
    /\ mapper.currentState = "accept"

(***************************************************************************)
(* SpecParams: non-positive sigma and sizes below 1, as constructor        *)
(* options and as arguments of direct kernel and blur requests.            *)
(***************************************************************************)
ParamOptions == {NoOptions, Opt({0}, {-10}, {}, {}), Opt({-5}, {0}, {}, {})}

ParamRequests == {<<0, 3>>, <<-10, 3>>, <<10, 0>>, <<10, -1>>}

InitParams ==
    /\ \E o \in ParamOptions : Constructed(o)
    /\ NormalConstructed(NoNormalOptions)
    /\ lastOp = [op |-> "new", error |-> "none"]
    /\ app = NewApp(Null)
    /\ manager = NewStateManager

NextParams ==
    \/ \E k \in ParamRequests : GetKernelRequest(1, k[1], k[2])
    \/ \E sigma \in {0, -10} : BlurRequest(Uniform(1, 1, White), sigma)
    \/ GenerateBumpMap(Uniform(1, 1, White))

SpecParams == InitParams /\ [][NextParams]_vars

NormalOptions ==
    {NoNormalOptions,
     [strength |-> {200}, gradientType |-> {"sobel"}],
     [strength |-> {50}, gradientType |-> {"prewitt"}]}

InitNormal ==
    /\ Constructed(NoOptions)
    /\ \E o \in NormalOptions : NormalConstructed(o)
    /\ lastOp = [op |-> "new", error |-> "none"]
    /\ app = NewApp(Null)
    /\ manager = NewStateManager

NextNormal ==
    \/ \E b \in BumpBuffers \cup InvalidImages : GenerateNormalMap(b)
    \/ \E b \in BumpBuffers \cup {Null} :
          Len(pda.stack) < MaxStack /\ GenerateNormalMapPDA(b)

SpecNormal == InitNormal /\ [][NextNormal]_vars

\* the normal map of one bump buffer under one configuration
NormalMapOf(bump, gradientType, strength) ==
    EncodeAsRGB(NormalizeVectors(MapToVectorField(
        ComputeComplexGradients(bump, gradientType, strength))))

\* C8: every generateNormalMap call returns the normal map of the buffer
\* passed to that call, whatever the instance was given before.
C8_NormalMapOfOwnArgument ==
    /\ (lastOp.op = "generateNormalMap" /\ lastOp.error = "none")
          => lastOp.output = NormalMapOf(lastOp.input, mapper.gradientType,
                                         mapper.strength)
    /\ (lastOp.op = "pda.generateNormalMap" /\ lastOp.error = "none")
          => lastOp.output = NormalMapOf(lastOp.input, "central", pda.strength)

(***************************************************************************)
(* SpecMapper: normal maps under every gradient method, on one             *)
(* BumpToNormalMapper and one BumpToNormalPDA built from the same options. *)
(***************************************************************************)
NOpt(s, t) == [strength |-> s, gradientType |-> t]

MapperOptions ==
    {NoNormalOptions,
     NOpt({100}, {"central"}), NOpt({200}, {"central"}),
     NOpt({100}, {"sobel"}), NOpt({200}, {"sobel"}),
     NOpt({100}, {"prewitt"}), NOpt({50}, {"prewitt"}),
     NOpt({}, {"scharr"}), NOpt({300}, {"Sobel"})}

\* the ramp of five levels 0, 64, 128, 192, 255
RampWidth == 5

MapperBuffers == {Flat(1, 1, 128), Flat(2, 2, 77), Flat(MaxDim, 1, 255),
                  Ramp(RampWidth, 1), Ramp(MaxDim, MaxDim),
                  RampDown(2, MaxDim), Step(2, 2), Checker(2, 2)}

PDABuffers == {Flat(2, 2, 77), Ramp(RampWidth, 1), RampDown(2, MaxDim)}

InitMapper ==
    /\ Constructed(NoOptions)
    /\ \E o \in MapperOptions : NormalConstructed(o)
    /\ lastOp = [op |-> "new", error |-> "none"]
    /\ app = NewApp(Null)
    /\ manager = NewStateManager

NextMapper ==
    \/ \E b \in MapperBuffers : GenerateNormalMap(b)
    \/ \E b \in PDABuffers : Len(pda.stack) < MaxStack /\ GenerateNormalMapPDA(b)

SpecMapper == InitMapper /\ [][NextMapper]_vars

KnownMethods == {"central", "sobel", "prewitt"}

\* the normal map the central method gives for a buffer
C11_CentralMapOf(bump, strength) ==
    EncodeAsRGB(NormalizeVectors(MapToVectorField(
        [width |-> bump.width, height |-> bump.height,
         data |-> CentralGradients(bump, strength)])))

\* C11 as stated: generateNormalMap on a mapper whose gradient method is not
\* 'central', 'sobel' or 'prewitt' fails with an InvalidParameter error and
\* computes no gradient.
C11_RejectsUnknownMethod ==
    (lastOp.op = "generateNormalMap" /\ mapper.gradientType \notin KnownMethods)
        => (lastOp.error = "InvalidParameter"
              /\ mapper.processingData.gradients = Null)

\* C11 as amended: an unrecognised gradient method string is never rejected;
\* the constructor stores it as given and generateNormalMap computes the
\* central gradients for it, returning the central method's normal map.
C11_UnknownMethodIsCentral ==
    (lastOp.op = "generateNormalMap" /\ mapper.gradientType \notin KnownMethods)
        => /\ lastOp.error = "none"
           /\ mapper.processingData.gradients.data
                 = CentralGradients(lastOp.input, mapper.strength)
           /\ lastOp.output = C11_CentralMapOf(lastOp.input, mapper.strength)

\* a mapper built with 'Sobel' (capitalised) produced the central map of a
\* checkerboard, which is not its sobel map
C11_Witness ==
    /\ lastOp.op = "generateNormalMap" /\ lastOp.error = "none"
    /\ mapper.gradientType = "Sobel"
    /\ lastOp.input = Checker(2, 2)
    /\ lastOp.output # NormalMapOf(lastOp.input, "sobel", mapper.strength)

(***************************************************************************)
(* SpecStrength: the strength the normal mappers keep for each option.     *)
(***************************************************************************)
StrengthOptions ==
    {NOpt(s, {}) : s \in {{}, {0}, {1}, {50}, {1000}, {1001}, {5000}, {-300}}}

StrengthBuffers == {Flat(1, 1, 128), Flat(2, 2, 77), Step(2, 2), Step(MaxDim, 1)}

NextStrength ==
    \/ \E o \in StrengthOptions, wrapped \in BOOLEAN : ConstructNormal(o, wrapped)
    \/ \E b \in StrengthBuffers : GenerateNormalMap(b)
    \/ \E b \in StrengthBuffers :
          Len(pda.stack) < MaxStack /\ GenerateNormalMapPDA(b)

SpecStrength == Init /\ [][NextStrength]_vars

\* strength s (hundredths) clamped to [0.01, 10.0]
C12_Clamped(s) == IF s < 1 THEN 1 ELSE IF s > 1000 THEN 1000 ELSE s

\* C12: for every strength option, the strength a normal mapper uses is the
\* option clamped to [0.01, 10.0], and 1.0 when no strength is supplied.
C12_StrengthClamped ==
    lastOp.op = "newMapper" =>
        \A used \in {mapper.strength, pda.strength} :
            IF lastOp.options.strength = {} THEN used = 100
            ELSE \A given \in lastOp.options.strength : used = C12_Clamped(given)

(***************************************************************************)
(* Claims about the gradient stage, checked under SpecMapper.              *)
(***************************************************************************)
\* the red sample of buffer b at (x, y)
C13_At(b, x, y) == b.data[y * b.width + x][1]

\* the central differences (numerators over 255) of buffer b at pixel p, a
\* neighbour outside the image replaced by the centre value
C13_Diff(b, p) ==
    LET x == p % b.width
        y == p \div b.width
        c == C13_At(b, x, y)
    IN  [dx |-> (IF x + 1 < b.width THEN C13_At(b, x + 1, y) ELSE c)
                  - (IF x >= 1 THEN C13_At(b, x - 1, y) ELSE c),
         dy |-> (IF y + 1 < b.height THEN C13_At(b, x, y + 1) ELSE c)
                  - (IF y >= 1 THEN C13_At(b, x, y - 1) ELSE c)]

\* gradients g are strength * (the central differences of b) / (2 * 255);
\* strength is in hundredths, so the common denominator is 2 * 255 * 100
C13_IsCentral(g, b, strength) ==
    /\ DOMAIN g = 0..(b.width * b.height - 1)
    /\ \A p \in DOMAIN g :
          /\ g[p].den = 2 * 255 * 100
          /\ g[p].dx = strength * C13_Diff(b, p).dx
          /\ g[p].dy = strength * C13_Diff(b, p).dy

\* C13: with the central method dx = strength*(right - left)/2 and
\* dy = strength*(bottom - top)/2 over red samples divided by 255, a neighbour
\* outside the image replaced by the centre value (in the PDA, over the buffer
\* its gradient stage reads); on the ramp 0,64,128,192,255 at strength 1 every
\* dy is 0 and dx at x = 2 is (192 - 64)/255/2.
C13_CentralGradients ==
    /\ (lastOp.op = "generateNormalMap" /\ lastOp.error = "none"
          /\ mapper.gradientType = "central")
          => /\ C13_IsCentral(mapper.processingData.gradients.data, lastOp.input,
                              mapper.strength)
             /\ (lastOp.input = Ramp(RampWidth, 1) /\ mapper.strength = 100)
                   => /\ \A p \in 0..4 : mapper.processingData.gradients.data[p].dy = 0
                      /\ LET g == mapper.processingData.gradients.data[2]
                         IN  g.dx * 2 * 255 = (192 - 64) * g.den
    /\ (lastOp.op = "pda.generateNormalMap" /\ lastOp.error = "none")
          => C13_IsCentral(lastOp.gradients.data, pda.stack[1].data, pda.strength)

\* the central method at strength 1.0 ran on the five-level ramp
C13_Witness ==
    /\ lastOp.op = "generateNormalMap" /\ lastOp.error = "none"
    /\ mapper.gradientType = "central" /\ mapper.strength = 100
    /\ lastOp.input = Ramp(RampWidth, 1)
    /\ mapper.processingData.gradients.data[2].dx = 12800
    /\ mapper.processingData.gradients.data[0].dx = 6400

\* the red sample of b at (x + dx, y + dy) with the coordinates clamped
C14_At(b, x, y, dx, dy) ==
    LET sx == IF x + dx < 0 THEN 0 ELSE IF x + dx > b.width - 1 THEN b.width - 1
              ELSE x + dx
        sy == IF y + dy < 0 THEN 0 ELSE IF y + dy > b.height - 1 THEN b.height - 1
              ELSE y + dy
    IN  b.data[sy * b.width + sx][1]

\* the 3x3 stencil with weights 1, mid, 1 at pixel p of b
C14_Stencil(b, p, mid) ==
    LET x == p % b.width
        y == p \div b.width
    IN  [gx |-> - C14_At(b, x, y, -1, -1) + C14_At(b, x, y, 1, -1)
                - mid * C14_At(b, x, y, -1, 0) + mid * C14_At(b, x, y, 1, 0)
                - C14_At(b, x, y, -1, 1) + C14_At(b, x, y, 1, 1),
         gy |-> - C14_At(b, x, y, -1, -1) - mid * C14_At(b, x, y, 0, -1)
                - C14_At(b, x, y, 1, -1) + C14_At(b, x, y, -1, 1)
                + mid * C14_At(b, x, y, 0, 1) + C14_At(b, x, y, 1, 1)]

C15_FlatHeightNormal ==
    (lastOp.op = "generateNormalMap" /\ lastOp.error = "none"
        /\ mapper.gradientType = "central" /\ mapper.strength = 100
        /\ \A p \in DOMAIN lastOp.input.data : lastOp.input.data[p] = lastOp.input.data[0])
        => /\ DOMAIN lastOp.output.data = DOMAIN lastOp.input.data
           /\ \A p \in DOMAIN lastOp.output.data :
                 /\ lastOp.output.data[p] = lastOp.output.data[0]
                 /\ lastOp.output.data[p][1] \in {127, 128}
                 /\ lastOp.output.data[p][2] \in {127, 128}
                 /\ lastOp.output.data[p][3] = 255
                 /\ lastOp.output.data[p][4] = 255

\* a flat 2x2 buffer of 77 gave (127,127,255,255) everywhere
C15_Witness ==
    /\ lastOp.op = "generateNormalMap" /\ lastOp.error = "none"
    /\ mapper.gradientType = "central" /\ mapper.strength = 100
    /\ lastOp.input = Flat(2, 2, 77)
    /\ \A p \in 0..3 : lastOp.output.data[p] = <<127, 127, 255, 255>>

\* the vector (x, y, z) / (den * sqrt(root)) has length 1
C16_IsUnit(v) ==
    /\ v.root > 0 /\ v.den > 0
    /\ v.x * v.x + v.y * v.y + v.z * v.z = v.den * v.den * v.root

C17_Leq(m, root, q) ==
    IF m >= 0
    THEN q >= 0 /\ RootLeq(m, root, q)
    ELSE q >= 0 \/ ~(RootLeq(-m, root, -q) /\ ~RootEq(-m, root, -q))

\* byte b is floor((c * 0.5 + 0.5) * 255) for c = v / (den * sqrt(root)):
\* b <= (c + 1) * 255 / 2 < b + 1, i.e.
\* (2b - 255) * den * sqrt(root) <= 255 v < (2b - 253) * den * sqrt(root)
C17_IsFloor(b, v, den, root) ==
    /\ b \in 0..255
    /\ C17_Leq((2 * b - 255) * den, root, 255 * v)
    /\ ~C17_Leq((2 * b - 253) * den, root, 255 * v)

C17_Encodes(img, vectors) ==
    /\ DOMAIN img.data = DOMAIN vectors.data
    /\ \A p \in DOMAIN img.data :
          LET v == vectors.data[p] IN
          /\ C17_IsFloor(img.data[p][1], v.x, v.den, v.root)
          /\ C17_IsFloor(img.data[p][2], v.y, v.den, v.root)
          /\ C17_IsFloor(img.data[p][3], v.z, v.den, v.root)
          /\ img.data[p][4] = 255

\* C17: every pixel of every normal map has alpha 255 and R, G, B equal to
\* floor((component*0.5 + 0.5)*255) of the x, y, z of its vector, in [0,255].
C17_FloorEncoding ==
    /\ mapper.processingData.normalMap # Null =>
          C17_Encodes(mapper.processingData.normalMap, mapper.processingData.vectors)
    /\ (lastOp.op = "pda.generateNormalMap" /\ lastOp.error = "none") =>
          C17_Encodes(lastOp.output, lastOp.vectors)

\* a map with a pixel off the flat colour, whose red is not 127
C17_Witness ==
    /\ lastOp.op = "generateNormalMap" /\ lastOp.error = "none"
    /\ \E p \in DOMAIN lastOp.output.data :
          /\ lastOp.output.data[p][1] > 127
          /\ lastOp.output.data[p][3] < 255
    /\ \E p \in DOMAIN lastOp.output.data : lastOp.output.data[p][2] < 127

(***************************************************************************)
(* The kernels held by the cache, checked under SpecRequests.              *)
(***************************************************************************)
\* max(3, ceil(6 * sigma)) raised to the next odd value, sigma in tenths
C18_DerivedSize(sigma) ==
    LET c == (6 * sigma + 9) \div 10
        k == IF c < 3 THEN 3 ELSE c
    IN  IF k % 2 = 0 THEN k + 1 ELSE k

RECURSIVE C18_Sum(_, _)
C18_Sum(seq, n) == IF n = 0 THEN 0 ELSE seq[n] + C18_Sum(seq, n - 1)

\* C18: for every sigma > 0 and the kernel size derived from it, the kernel
\* has exactly `size` non-negative weights and they sum to 1.
C18_KernelNormalized ==
    \A k \in DOMAIN kernelCache :
        (k[1] > 0 /\ k[2] = C18_DerivedSize(k[1])) =>
            LET w == kernelCache[k].weights IN
            /\ ~w.nan
            /\ Len(w.num) = k[2]
            /\ \A i \in 1..Len(w.num) : w.num[i] >= 0
            /\ w.den > 0
            /\ C18_Sum(w.num, Len(w.num)) = w.den

\* the kernels of sigma 0.5, 1.0 and 2.0 at their derived sizes 3, 7 and 13
C18_Witness ==
    /\ DOMAIN kernelCache = {<<5, 3>>, <<10, 7>>, <<20, 13>>}
    /\ lastOp.op = "blur"
    /\ kernelCache[<<20, 13>>].weights.num[7] = 100
    /\ kernelCache[<<20, 13>>].weights.num[1] > 0

(***************************************************************************)
(* SpecStages: the stages chained on buffers of unequal width and height:  *)
(* blur, generateBumpMap, and generateNormalMap on a height map or on the  *)
(* bump map the first stage produced.                                      *)
(***************************************************************************)
StageOptions == {Opt({5}, {1}, {20}, {}), Opt({5}, {5}, {30}, {0})}

StageImages == {Checker(1, 2), Checker(2, 1), Ramp(MaxDim, 1), Checker(2, 2)}

InitStages ==
    /\ \E o \in StageOptions : Constructed(o)
    /\ NormalConstructed(NoNormalOptions)
    /\ lastOp = [op |-> "new", error |-> "none"]
    /\ app = NewApp(Null)
    /\ manager = NewStateManager

NextStages ==
    \/ \E img \in StageImages : BlurRequest(img, 5)
    \/ \E img \in StageImages : GenerateBumpMap(img)
    \/ \E b \in {bumpMap, Checker(1, 2), Ramp(MaxDim, 1)} : GenerateNormalMap(b)

SpecStages == InitStages /\ [][NextStages]_vars

StageOps == {"blur", "generateBumpMap", "generateNormalMap"}

\* C19: the buffer returned by the blur, by generateBumpMap and by
\* generateNormalMap has exactly the width and height of the buffer passed in.
C19_SameDimensions ==
    (lastOp.op \in StageOps /\ lastOp.error = "none") =>
        /\ lastOp.output.width = lastOp.input.width
        /\ lastOp.output.height = lastOp.input.height
        /\ DOMAIN lastOp.output.data
              = 0..(lastOp.input.width * lastOp.input.height - 1)

\* a 1x2 height map gave a 1x2 normal map after a bump map was produced
C19_Witness ==
    /\ lastOp.op = "generateNormalMap" /\ lastOp.error = "none"
    /\ lastOp.input.width = 1 /\ lastOp.input.height = 2
    /\ lastOp.output.width = 1 /\ lastOp.output.height = 2
    /\ bumpMap # Null /\ bumpMap.width = 2 /\ bumpMap.height = 1

InitApp ==
    /\ Constructed(NoOptions)
    /\ NormalConstructed(NoNormalOptions)
    /\ lastOp = [op |-> "init", error |-> "none"]
    /\ app = NewApp(Null)
    /\ manager = NewStateManager

MapCheckboxes == {"normal", "albedo", "emission"}

Timers == {"initial", "debounce", "rerun"}

\* the flag a map checkbox shows
FlagOf(kind) ==
    CASE kind = "normal" -> app.state.flags.useNormalMap
      [] kind = "albedo" -> app.state.flags.useAlbedoMap
      [] kind = "emission" -> app.state.flags.useEmissionMap

NextApp ==
    \/ ApplyChanges
    \/ HandleFileSelect
    \/ SliderChange
    \/ \E kind \in MapCheckboxes : ToggleMap(kind, ~FlagOf(kind))
    \/ \E mode \in ViewModes : SelectView(mode)
    \/ \E which \in Timers : TimerFires(which)
    \/ \E r \in 1..Len(app.runs), ok \in BOOLEAN : Loaded(r, ok)
    \/ Reload

SpecApp == InitApp /\ [][NextApp]_vars

\* the bump texture a run made, once its bump stage is complete
C21_BumpOf(r) == [kind |-> "bump", run |-> r, from |-> Null]

\* C21: a normal map is generated only once the bump map of the same run is
\* complete, and it is drawn from the bump texture that run produced: no
\* normal texture of a run exists while its bump image is still awaited,
\* and every normal texture comes from the finished bump texture of its run.
C21_NormalAfterOwnBump ==
    LET n == app.state.textures.normalTexture
        m == app.material.normalMap
    IN  /\ \A t \in {n, m} \ {Null} :
              /\ t.run \in 1..Len(app.runs)
              /\ app.runs[t.run].pc # "bump"
              /\ app.runs[t.run].bump = C21_BumpOf(t.run)
              /\ t.from = C21_BumpOf(t.run)
        /\ (lastOp.op = "loaded" /\ lastOp.kind = "bump" /\ lastOp.ok
               /\ app.state.flags.useNormalMap)
              => /\ n # Null /\ n.run = lastOp.run
                 /\ app.state.textures.bumpTexture = n.from

\* a second run of one page has produced its normal map while the textures
\* of the first run were recorded
C21_Witness ==
    /\ lastOp.op = "loaded" /\ lastOp.kind = "bump" /\ lastOp.ok
    /\ lastOp.run = 2
    /\ lastOp.prev = [kind |-> "bump", run |-> 1, from |-> Null]
    /\ app.state.textures.normalTexture # Null
    /\ app.state.textures.normalTexture.run = 2

\* the texture the state records for a map kind
C22_Recorded(kind) ==
    CASE kind = "bump" -> app.state.textures.bumpTexture
      [] kind = "albedo" -> app.state.textures.albedoTexture
      [] kind = "emission" -> app.state.textures.emissionTexture

\* C22: when the generation of a map fails, the error is shown and the
\* texture derived for that map before is still the one recorded in the
\* state and has not been disposed.
C22_PreviousTextureKept ==
    (lastOp.op = "loaded" /\ ~lastOp.ok)
        => /\ <<lastOp.run, lastOp.kind>> \in app.errors
           /\ lastOp.prev # Null
                 => /\ C22_Recorded(lastOp.kind) = lastOp.prev
                    /\ lastOp.prev \notin app.disposed

(***************************************************************************)
(* C23 is checked under SpecMapper.                                        *)
(***************************************************************************)
C23_Order == <<"scan", "complex_grad", "vector_map", "normalize", "encode", "accept">>

\* C23: every generateNormalMap call on valid input visits SCAN,
\* COMPLEX_GRAD, VECTOR_MAP, NORMALIZE, ENCODE, ACCEPT in this order, each
\* once, and returns in ACCEPT, on the first call of an instance and on
\* every later one.
C23_PipelineOrder ==
    /\ (lastOp.op = "generateNormalMap" /\ lastOp.error = "none")
          => /\ mapper.visited = C23_Order
             /\ mapper.currentState = "accept"
             /\ lastOp.output = mapper.processingData.normalMap
             /\ lastOp.output # Null
    /\ (lastOp.op = "pda.generateNormalMap" /\ lastOp.error = "none")
          => /\ pda.visited = C23_Order
             /\ pda.currentState = "accept"
             /\ lastOp.output = pda.normalMap
             /\ lastOp.output # Null

\* a second call on the same BumpToNormalPDA has returned
C23_Witness ==
    /\ lastOp.op = "pda.generateNormalMap" /\ lastOp.error = "none"
    /\ Len(pda.stack) = 2
    /\ pda.visited = C23_Order
    /\ mapper.visited = C23_Order

\* the runs that have begun and not reached their finally block
C24_Active == {r \in 1..Len(app.runs) : app.runs[r].pc # "done"}

\* C24: at most one applyMaps run is active at any time, and an applyMaps
\* call made while processingInProgress is set only sets pendingUpdate: it
\* starts no run, disposes nothing and leaves textures and material alone,
\* whichever of the button, the file input or a timer made the call.
C24_SingleRun ==
    /\ [](Cardinality(C24_Active) <= 1)
    /\ [][(lastOp'.op = "applyMaps" /\ lastOp'.busy)
             => /\ app'.runs = app.runs
                /\ app'.disposed = app.disposed
                /\ app'.material = app.material
                /\ app'.state.textures = app.state.textures
                /\ app'.state.flags =
                       [app.state.flags EXCEPT !.pendingUpdate = TRUE]]_vars

\* a call made by the re-run timer has been turned away while a run was
\* awaiting its image
C24_Witness ==
    /\ lastOp.op = "applyMaps" /\ lastOp.busy /\ lastOp.running
    /\ lastOp.via = "rerun"
    /\ app.state.flags.pendingUpdate
    /\ Cardinality(C24_Active) = 1

(***************************************************************************)
(* SpecAppLive: the page under fair scheduling: an awaited image           *)
(* eventually loads or fails, and a timer that is set eventually fires.    *)
(***************************************************************************)
SpecAppLive ==
    /\ InitApp
    /\ [][NextApp]_vars
    /\ WF_vars(\E r \in 1..Len(app.runs), ok \in BOOLEAN : Loaded(r, ok))
    /\ WF_vars(TimerFires("rerun"))

\* C25: when a run ends, by success or by an error, processingInProgress
\* and pendingUpdate are both false again, and if applyMaps was requested
\* during the run a further run is scheduled; so a request made while a run
\* is in progress is eventually followed by a run that starts after it (or
\* the page is reloaded first).
C25_PendingRequestServed ==
    /\ []((lastOp.op = "loaded" /\ lastOp.ended)
             => /\ ~app.state.flags.processingInProgress
                /\ ~app.state.flags.pendingUpdate
                /\ lastOp.pending => app.timers.rerun > 0)
    /\ (app.unserved ~> ~app.unserved)

\* a run that was asked for again while it awaited its image has failed,
\* and the re-run timer is set
C25_Witness ==
    /\ lastOp.op = "loaded" /\ lastOp.ended /\ ~lastOp.ok
    /\ lastOp.pending
    /\ app.unserved
    /\ app.timers.rerun > 0

\* C26: processingInProgress is set only while an applyMaps run is
\* executing, also after loadFromLocalStorage has restored the saved state
\* at start-up, so the first applyMaps call of a page starts a run unless
\* one is already executing.
C26_ProcessingOnlyWhileRunning ==
    /\ app.state.flags.processingInProgress
          => \E r \in 1..Len(app.runs) : app.runs[r].pc # "done"
    /\ (lastOp.op = "applyMaps" /\ lastOp.via = "initial" /\ ~lastOp.running)
          => ~lastOp.busy

(***************************************************************************)
(* SpecManager: one StateManager: subscriptions, removals and updates      *)
(* while its clock advances.                                               *)
(***************************************************************************)
ListenerSections == {"bumpOptions", "version"}

\* an update that names one section
Update(section, value) == [NoSections EXCEPT ![section] = value]

\* an object with one field
Field(key, p) == Obj([NoFields EXCEPT ![key] = p])

Updates ==
    {Update("bumpOptions", Field("sigma1", Num(10))),
     Update("bumpOptions", Field("sigma1", Num(20))),
     Update("bumpOptions", Field("sigma1", NaN)),
     [NoSections EXCEPT !["bumpOptions"] = Field("heightScale", Num(20)),
                        !["version"] = Direct(Num(1))],
     Update("version", Direct(Num(0))),
     Update("version", Field("sigma1", Num(10))),
     Update("visualization", Field("activeMap", Num(1)))}

InitManager ==
    /\ Constructed(NoOptions)
    /\ NormalConstructed(NoNormalOptions)
    /\ lastOp = [op |-> "new StateManager", error |-> "none"]
    /\ app = NewApp(Null)
    /\ manager = NewStateManager

NextManager ==
    \/ Subscribe
    \/ \E section \in ListenerSections : SubscribeToSection(section)
    \/ \E s \in manager.issued : Unsubscribe(s[1], s[2])
    \/ \E u \in Updates, silent \in BOOLEAN : UpdateStateCall(u, silent)
    \/ Tick

SpecManager == InitManager /\ [][NextManager]_vars

\* C27: subscribe and subscribeToSection register the callback under an id
\* that no registered listener has, so no listener is replaced; every
\* callback subscribed to all changes and not unsubscribed is invoked by a
\* notifying change; and unsubscribe(id) removes exactly the callback the
\* id was returned for.
C27_ListenersKept ==
    /\ lastOp.op \in {"subscribe", "subscribeToSection"} => lastOp.replaced = {}
    /\ (lastOp.op = "updateState" /\ lastOp.returned /\ ~lastOp.silent)
          => \A s \in manager.issued : s[1][1] = "global" => s[2] \in lastOp.notified
    /\ lastOp.op = "unsubscribe" => lastOp.removed = {lastOp.callback}

\* some value supplied by the update is not the value stored before it
C28_Differs(before, newState) ==
    \E section \in Sections :
        LET new == newState[section]
            old == before[section]
        IN  /\ new.type # "undefined"
            /\ IF new.type = "object"
               THEN \E k \in Keys : /\ new.fields[k].type # "undefined"
                                    /\ old.fields[k] # new.fields[k]
               ELSE old # new

\* C28: updateState returns true exactly when some stored value differs
\* from the value supplied, listeners are notified exactly when that
\* happens and silent is false, and an update that restates the current
\* values changes no state, notifies nobody and returns false.
C28_ChangeReported ==
    (lastOp.op = "updateState" /\ lastOp.error = "none")
        => LET differs == C28_Differs(lastOp.before, lastOp.newState)
           IN  /\ lastOp.returned <=> differs
               /\ lastOp.notifies <=> (differs /\ ~lastOp.silent)
               /\ ~differs => manager.state = lastOp.before

\* C29: a run in which every enabled map generation succeeded re-applies
\* the visualization mode (setVisualizationMode is called with the active
\* map) and ends without an error, also on a page whose map view was never
\* changed.
C29_VisualizationReapplied ==
    (lastOp.op = "loaded" /\ lastOp.ok /\ lastOp.ended)
        => /\ app.runs[lastOp.run].viz \in ViewModes
           /\ app.runs[lastOp.run].error = "none"

(***************************************************************************)
(* C30 is checked under SpecDoG.                                           *)
(***************************************************************************)
\* C30: with heightScale >= 0, every pixel of the height map returned by
\* generateBumpMap has R = G = B >= 128 and A = 255: the difference of the
\* blurs is an absolute value, so no pixel falls below the neutral 128.
C30_NeverBelowNeutral ==
    (lastOp.op = "generateBumpMap" /\ lastOp.error = "none" /\ heightScale >= 0)
        => \A p \in 0..(lastOp.output.width * lastOp.output.height - 1) :
              LET px == lastOp.output.data[p]
              IN  /\ px[1] = px[2] /\ px[2] = px[3]
                  /\ px[1] >= 128
                  /\ px[4] = 255
                  /\ \A c \in 1..3 : lastOp.dog.data[p][c] >= 0

\* a height map with a pixel raised above the neutral value was returned
C30_Witness ==
    /\ lastOp.op = "generateBumpMap" /\ lastOp.error = "none"
    /\ heightScale >= 0
    /\ \E p \in 0..(lastOp.output.width * lastOp.output.height - 1) :
          /\ lastOp.output.data[p][1] > 128
          /\ lastOp.output.data[p][1] < 255

====
